---- MODULE Spec2Model ----
(***************************************************************************)
(* A model of tinyusdz-rs: Mesh::triangulate and the MeshExtractor         *)
(* (src/src/mesh.rs); the traversal of a Stage through the process-wide    *)
(* TRAVERSAL_PRIMS buffer and the iteration of a StageTraversal, the       *)
(* staging of in-memory loads through a temporary file, the results of     *)
(* Stage::open and the lifetime of the engine stage behind a Stage         *)
(* (src/src/stage.rs); child access, classification and path of a Prim     *)
(* (src/src/prim.rs); and the GLB writer build_gltf / write_glb            *)
(* (src/examples/usd_to_glb.rs).                                           *)
(***************************************************************************)
EXTENDS Integers, Sequences, FiniteSets, TLC

VARIABLES
    \* ---- Mesh::triangulate ----
    mesh,             \* the input mesh (&self)
    overflow_checks,  \* build profile: TRUE = arithmetic overflow panics (debug)
    out,              \* result of self.triangulate()
    out2,             \* result of triangulating the first result again
    pcM,              \* "input" | "once" | "twice"
    \* ---- Stage::traverse ----
    tree,             \* per stage: the parent of each node (0 for the root)
    TRAVERSAL_PRIMS,  \* the process-wide Mutex<Vec<PrimPtr>>
    target,           \* per thread: the stage it calls traverse() on
    tpc,              \* per thread: "idle" | "walk" | "done"
    walked,           \* per thread: callbacks the engine has made so far
    prims,            \* per thread: StageTraversal.prims of the last call
    prev,             \* per thread: StageTraversal.prims of the call before
    calls,            \* per thread: traverse() calls begun
    \* ---- Stage::from_usda / from_usdc / from_usdz ----
    fs,               \* the temporary directory: path -> file
    data,             \* per load: the bytes passed in
    ext,              \* per load: the extension of the sub-format
    lpc,              \* per load: "create" | "write" | "sync" | "open" | "returned"
    parsed,           \* per load: the bytes the engine read, once it has
    returned,         \* per load: what the call returned
    \* ---- Stage::new / Stage::open / Drop for Stage ----
    heap,             \* per engine stage: "unallocated" | "live" | "freed"
    free_calls,       \* per engine stage: calls of c_tinyusd_stage_free
    inner,            \* per thread: Stage.inner (0: no stage was allocated)
    life,             \* per thread: "start" | "owned" | "dropped" | "failed"
    stale,            \* engine stages that were accessed after their free
    opened,           \* per thread: the Stage::open call: [path, load, ret]
    \* ---- build_gltf / write_glb (examples/usd_to_glb.rs) ----
    meshes,           \* the list of meshes passed to both functions
    gpc,              \* "build" | "finish" | "rebuild" | "write" | "done"
                      \* | "panicked"
    loop_idx,         \* meshes the running loop has been through
    build,            \* build_gltf: [buffer_data, root, mesh_primitives]
    gltf,             \* the Root that build_gltf returned
    buffer_data,      \* write_glb: the buffer it rebuilds
    serialized,       \* write_glb: the serialized Root
    glb,              \* the output file: [exists, bytes]
    written,          \* what write_glb returned
    \* ---- Prim::child / Prim::children (prim.rs) ----
    asked,            \* the last child(index) call: [prim, index, result]
    iter,             \* the ChildIterator made by children(), if any
    yielded,          \* what the calls of next() on it returned, in order
    \* ---- classification (prim.rs) and MeshExtractor (mesh.rs) ----
    type_label,       \* per node of stage 1: the engine's type label
    local_name,       \* per node of stage 1: the engine's element name
    classified,       \* the last classification: [prim, is_mesh, .., path]
    extracted,        \* what MeshExtractor::collect returned
    \* ---- Iterator for StageTraversal (stage.rs) ----
    trav_index,       \* per thread: StageTraversal.index
    nexts             \* per thread: what the calls of next() returned

meshVars == <<mesh, overflow_checks, out, out2, pcM>>
travVars == <<tree, TRAVERSAL_PRIMS, target, tpc, walked, prims, prev, calls>>
loadVars == <<fs, data, ext, lpc, parsed, returned>>
lifeVars == <<heap, free_calls, inner, life, stale, opened>>
glbVars ==
    <<meshes, gpc, loop_idx, build, gltf, buffer_data, serialized, glb,
      written>>
childVars == <<asked, iter, yielded>>
sceneVars == <<type_label, local_name, classified, extracted>>
iterVars == <<trav_index, nexts>>
moreVars == <<lifeVars, glbVars, childVars, sceneVars, iterVars>>
vars == <<meshVars, travVars, loadVars, moreVars>>

(***************************************************************************)
(* Bounds of the model.                                                    *)
(***************************************************************************)
MaxFaces == 2
MaxCount == 4
MaxIndices == 5
MaxNodes == 3
MaxCalls == 2
MaxData == 2
MaxMeshes == 2
MaxJson == 4
MaxIndex == 5
MaxExtraNext == 2

(***************************************************************************)
(* Generic helpers.                                                        *)
(***************************************************************************)
SeqsUpTo(S, n) == UNION {[1..k -> S] : k \in 0..n}

RECURSIVE Sum(_)
Sum(s) == IF s = <<>> THEN 0 ELSE s[1] + Sum(Tail(s))

None == <<>>
Some(v) == <<v>>

(***************************************************************************)
(* Mesh (mesh.rs:20-37) and Mesh::new (mesh.rs:41-52).                     *)
(***************************************************************************)
identity_matrix ==
    << <<1, 0, 0, 0>>, <<0, 1, 0, 0>>, <<0, 0, 1, 0>>, <<0, 0, 0, 1>> >>

MeshNew(name) ==
    [ name                |-> name,
      points              |-> <<>>,
      face_vertex_counts  |-> <<>>,
      face_vertex_indices |-> <<>>,
      normals             |-> None,
      uvs                 |-> None,
      local_transform     |-> identity_matrix,
      world_transform     |-> identity_matrix ]

(***************************************************************************)
(* Mesh::triangulate (mesh.rs:77-111).                                     *)
(*                                                                         *)
(* index_offset is a usize.  A negative i32 count cast `as usize` is       *)
(* 2^64 - |count|, so the sum index_offset + count is kept here as the     *)
(* signed representative of the usize value modulo 2^64: a negative        *)
(* representative r stands for the usize 2^64 + r, which is past the end   *)
(* of every Vec.  The addition overflows the usize exactly when the true   *)
(* unsigned sum reaches 2^64; with overflow checks (debug profile) that    *)
(* panics, without them (release profile) it wraps.                        *)
(***************************************************************************)
Panic == [tag |-> "Panic"]
Ok(m) == [tag |-> "Ok", mesh |-> m]
NoResult == [tag |-> "None"]

\* `index_offset += count as usize` overflows the usize
AddOverflows(index_offset, count) ==
    \/ index_offset >= 0 /\ count < 0 /\ index_offset + count >= 0
    \/ index_offset < 0 /\ count >= 0 /\ index_offset + count >= 0
    \/ index_offset < 0 /\ count < 0

\* self.face_vertex_indices[j] is in bounds (j a usize, 0-based)
InBounds(indices, j) == j >= 0 /\ j < Len(indices)

\* self.face_vertex_indices[j], 0-based
At(indices, j) == indices[j + 1]

\* the three pushes of one fan triangle (mesh.rs:99-101)
FanPushMissingFirst(acc, first, indices, index_offset, i) ==
    acc \o << At(indices, index_offset + i),
              At(indices, index_offset + i),
              At(indices, index_offset + i + 1) >>

FanPushTwo(acc, first, indices, index_offset, i) ==
    acc \o << first, At(indices, index_offset + i + 1) >>

FanPush(acc, first, indices, index_offset, i) ==
    acc \o << first,
              At(indices, index_offset + i),
              At(indices, index_offset + i + 1) >>

\* for i in 1..(count as usize - 1) { push; push; push } (mesh.rs:98-102)
RECURSIVE FanLoop(_, _, _, _, _, _)
FanLoop(indices, first, index_offset, count, i, acc) ==
    IF i >= count - 1
    THEN [panicked |-> FALSE, new_indices |-> acc]
    ELSE IF ~InBounds(indices, index_offset + i)
            \/ ~InBounds(indices, index_offset + i + 1)
         THEN [panicked |-> TRUE, new_indices |-> acc]
         ELSE FanLoop(indices, first, index_offset, count, i + 1,
                      FanPush(acc, first, indices, index_offset, i))

\* the index_offset after a face with count < 3 (mesh.rs:92)
SkipNoAdvance(index_offset, count) == index_offset

SkipOffset(index_offset, count) == index_offset + count

\* for &count in &self.face_vertex_counts { ... } (mesh.rs:90-105)
RECURSIVE FaceLoop(_, _, _, _, _, _)
FaceLoop(counts, indices, k, new_indices, index_offset, oc) ==
    IF k > Len(counts)
    THEN [panicked |-> FALSE, new_indices |-> new_indices]
    ELSE LET count == counts[k] IN
         IF count < 3
         THEN IF oc /\ AddOverflows(index_offset, count)
              THEN [panicked |-> TRUE, new_indices |-> new_indices]
              ELSE FaceLoop(counts, indices, k + 1, new_indices,
                            SkipOffset(index_offset, count), oc)
         ELSE IF ~InBounds(indices, index_offset)
              THEN [panicked |-> TRUE, new_indices |-> new_indices]
              ELSE LET first == At(indices, index_offset)
                       fan == FanLoop(indices, first, index_offset, count, 1,
                                      new_indices)
                   IN IF fan.panicked
                      THEN fan
                      ELSE FaceLoop(counts, indices, k + 1, fan.new_indices,
                                    index_offset + count, oc)

\* vec![3; new_indices.len() / 3] (mesh.rs:107)
ResultCountsPerIndex(new_indices) == [j \in 1..Len(new_indices) |-> 3]

ResultCounts(new_indices) == [j \in 1..(Len(new_indices) \div 3) |-> 3]

\* the fields copied into the result before the faces are read (mesh.rs:78-81)
ResultBase(self) ==
    [MeshNew(self.name) EXCEPT !.points = self.points,
                               !.local_transform = self.local_transform,
                               !.world_transform = self.world_transform]

\* the early return on an empty index list (mesh.rs:83-85)
EarlyReturn(self) == self.face_vertex_indices = <<>>

triangulate(self, oc) ==
    LET result == ResultBase(self) IN
    IF EarlyReturn(self)
    THEN Ok(result)
    ELSE LET loop == FaceLoop(self.face_vertex_counts,
                              self.face_vertex_indices, 1, <<>>, 0, oc)
         IN IF loop.panicked
            THEN Panic
            ELSE Ok([result EXCEPT
                       !.face_vertex_counts = ResultCounts(loop.new_indices),
                       !.face_vertex_indices = loop.new_indices])

(***************************************************************************)
(* The inputs of the triangulation specification.                          *)
(***************************************************************************)
CountValues == -1..MaxCount
IndexValues == {0, 1}
PointSeqs == {<<>>, << <<1, 2, 3>> >>}
OtherTransform ==
    << <<1, 0, 0, 0>>, <<0, 1, 0, 0>>, <<0, 0, 1, 0>>, <<5, 6, 7, 1>> >>

\* points = [[0,0,0],[1,0,0],[1,1,0],[0,1,0]], one quad
QuadMesh ==
    [MeshNew("quad") EXCEPT
        !.points = << <<0, 0, 0>>, <<1, 0, 0>>, <<1, 1, 0>>, <<0, 1, 0>> >>,
        !.face_vertex_counts = <<4>>,
        !.face_vertex_indices = <<0, 1, 2, 3>>]

NormalsFor(points) == [j \in 1..Len(points) |-> <<0, 0, 1>>]
UvsFor(points) == [j \in 1..Len(points) |-> <<0, 1>>]

\* normals and uvs, when present, hold one entry per point
PresenceFor(points) == IF points = <<>> THEN {FALSE} ELSE BOOLEAN

\* mesh is one of the bounded input meshes
IsInputMesh ==
    \E p \in PointSeqs :
    \E c \in SeqsUpTo(CountValues, MaxFaces) :
    \E ix \in SeqsUpTo(IndexValues, MaxIndices) :
    \E n \in PresenceFor(p), u \in PresenceFor(p) :
    \E t \in {<<identity_matrix, identity_matrix>>,
              <<OtherTransform, identity_matrix>>} :
       mesh = [ name                |-> "m",
                points              |-> p,
                face_vertex_counts  |-> c,
                face_vertex_indices |-> ix,
                normals             |-> IF n THEN Some(NormalsFor(p)) ELSE None,
                uvs                 |-> IF u THEN Some(UvsFor(p)) ELSE None,
                local_transform     |-> t[1],
                world_transform     |-> t[2] ]

MeshStart ==
    /\ out = NoResult
    /\ out2 = NoResult
    /\ pcM = "input"

(***************************************************************************)
(* Stage::traverse (stage.rs:130-132) and StageTraversal::new              *)
(* (stage.rs:186-230).                                                     *)
(*                                                                         *)
(* A stage is a tree of nodes 1..n rooted at node 1; a PrimPtr is the pair *)
(* <<stage, node>>.  The engine's c_tinyusd_stage_traverse walks the tree  *)
(* depth first, parents before children, and calls the callback once per   *)
(* node.  Every access to TRAVERSAL_PRIMS holds its mutex, so each of the  *)
(* three places that lock it is one atomic step.                           *)
(***************************************************************************)
Threads == {1, 2}
Stages == {1, 2}

RECURSIVE ReachesRoot(_, _, _)
ReachesRoot(parent, i, fuel) ==
    IF i = 1 THEN TRUE
    ELSE IF i = 0 \/ fuel = 0 THEN FALSE
    ELSE ReachesRoot(parent, parent[i], fuel - 1)

\* the parent functions of the trees over nodes 1..n rooted at 1
TreesOf(n) ==
    IF n = 0 THEN {<<>>}
    ELSE { p \in [1..n -> 0..n] :
             /\ p[1] = 0
             /\ \A i \in 2..n : p[i] # 0 /\ p[i] # i /\ ReachesRoot(p, i, n) }

Trees == UNION {TreesOf(n) : n \in 0..MaxNodes}

ChildrenOf(parent, i) == {j \in 1..Len(parent) : parent[j] = i}

\* the engine's walk: the node, then each child's subtree in child order
RECURSIVE WalkFrom(_, _)
RECURSIVE WalkAll(_, _)
WalkFrom(parent, i) == <<i>> \o WalkAll(parent, ChildrenOf(parent, i))
WalkAll(parent, todo) ==
    IF todo = {} THEN <<>>
    ELSE LET c == CHOOSE x \in todo : \A y \in todo : x <= y
         IN WalkFrom(parent, c) \o WalkAll(parent, todo \ {c})

EngineWalk(parent) == IF parent = <<>> THEN <<>> ELSE WalkFrom(parent, 1)

PrimPtr(s, n) == <<s, n>>

\* the pointers the engine reports for stage s, in order
NodeSequence(s) ==
    [k \in 1..Len(EngineWalk(tree[s])) |-> PrimPtr(s, EngineWalk(tree[s])[k])]

\* guard.clear() (stage.rs:188-191)
ClearKeep(buffer) == buffer

Clear(buffer) == <<>>

\* guard.push(PrimPtr(prim)) in collect_prim (stage.rs:202-204)
Push(buffer, ptr) == Append(buffer, ptr)

\* guard.iter().map(Prim::from_ptr).collect() (stage.rs:220-223)
ReadBackOf(buffer) == buffer

NoPrev == [stage |-> 0, prims |-> <<>>]

TravStart ==
    /\ TRAVERSAL_PRIMS = <<>>
    /\ target = [t \in Threads |-> 1]
    /\ tpc = [t \in Threads |-> "idle"]
    /\ walked = [t \in Threads |-> 0]
    /\ prims = [t \in Threads |-> <<>>]
    /\ prev = [t \in Threads |-> NoPrev]
    /\ calls = [t \in Threads |-> 0]

TravIdle ==
    /\ tree = [s \in Stages |-> <<>>]
    /\ TravStart

(***************************************************************************)
(* Stage::from_usda / from_usdc / from_usdz (stage.rs:106-127), TempFile   *)
(* and tempfile_for_data (stage.rs:247-270).                               *)
(*                                                                         *)
(* A file is [exists, bytes].  File::create makes the file or truncates    *)
(* it; write_all writes at the handle's own position, which is 0; the      *)
(* engine's load reads the file under the path it is given.  Each of these *)
(* is one step of a load, and loads run in threads of one process.         *)
(***************************************************************************)
Loads == {1, 2}
Formats == {".usda", ".usdc", ".usdz"}
Bytes == {0, 1}

\* std::process::id(): the same in every thread of the process
process_id == 7

\* temp_dir.join(format!("tinyusdz_rs_{}{}", std::process::id(), extension))
TempPath(extension) == <<"tinyusdz_rs_", process_id, extension>>

Paths == {TempPath(e) : e \in Formats}

Absent == [exists |-> FALSE, bytes |-> <<>>]
FileOf(bytes) == [exists |-> TRUE, bytes |-> bytes]

\* File::create(&path): the file exists and is empty
CreateFile(dir, path) == [dir EXCEPT ![path] = FileOf(<<>>)]

\* file.write_all(data) from position 0 of the file as it is now
Overlay(old, new) ==
    [k \in 1..(IF Len(old) > Len(new) THEN Len(old) ELSE Len(new)) |->
        IF k <= Len(new) THEN new[k] ELSE old[k]]

WriteFile(dir, path, bytes) ==
    [dir EXCEPT ![path] = FileOf(Overlay(dir[path].bytes, bytes))]

\* the engine accepts the bytes: they start with the format's magic byte
LoadSucceeds(file) == file.exists /\ file.bytes # <<>> /\ file.bytes[1] = 1

\* TempFile going out of scope: the struct has no Drop impl (stage.rs:248-256)
DropTempFile(dir, path) == dir

NotParsed == [read |-> FALSE, bytes |-> <<>>]
Parsed(bytes) == [read |-> TRUE, bytes |-> bytes]
NoReturn == [tag |-> "None"]
Err(kind) == [tag |-> "Err", kind |-> kind]
OkStage(bytes) == [tag |-> "Ok", stage |-> bytes]

LoadIdle ==
    /\ fs = [p \in Paths |-> Absent]
    /\ data = [l \in Loads |-> <<>>]
    /\ ext = [l \in Loads |-> ".usda"]
    /\ lpc = [l \in Loads |-> "returned"]
    /\ parsed = [l \in Loads |-> NotParsed]
    /\ returned = [l \in Loads |-> NoReturn]

(***************************************************************************)
(* Stage::new (stage.rs:31-37), Stage::open (stage.rs:55-100) and Drop for  *)
(* Stage (stage.rs:167-175).                                               *)
(*                                                                         *)
(* An engine stage is "unallocated" until c_tinyusd_stage_new returns it,  *)
(* "live" until c_tinyusd_stage_free is called on it and "freed" from then *)
(* on; the nodes of a stage live in the stage's memory.  Stage is neither  *)
(* Clone nor Copy, so the Stage value is the only holder of its pointer.   *)
(***************************************************************************)
Null == 0

\* c_tinyusd_stage_new(): the engine hands out a stage it has not handed out
FreshStages == {s \in Stages : heap[s] = "unallocated"}

Allocate(h, s) == [h EXCEPT ![s] = "live"]

\* c_tinyusd_stage_free(self.inner)
Free(h, s) == [h EXCEPT ![s] = "freed"]

CountFree(f, s) == [f EXCEPT ![s] = @ + 1]

\* an engine call that reads the memory of stage s
Access(st, s) == IF heap[s] = "freed" THEN st \cup {s} ELSE st

\* no Stage::open call yet: no path, no engine load, nothing returned
NotOpened == [path |-> <<>>, load |-> None, ret |-> NoReturn]

LifeIdle ==
    /\ opened = [t \in Threads |-> NotOpened]
    /\ heap = [s \in Stages |-> "unallocated"]
    /\ free_calls = [s \in Stages |-> 0]
    /\ inner = [t \in Threads |-> Null]
    /\ life = [t \in Threads |-> "start"]
    /\ stale = {}

MeshIdle ==
    /\ mesh = QuadMesh
    /\ overflow_checks = FALSE
    /\ MeshStart

(***************************************************************************)
(* Prim (prim.rs): a Prim is the pointer <<stage, node>>.  The engine      *)
(* keeps the children of a node in a vector; here that vector holds the    *)
(* node's children in ascending node number.                               *)
(***************************************************************************)
RECURSIVE Sorted(_)
Sorted(S) ==
    IF S = {} THEN <<>>
    ELSE LET c == CHOOSE x \in S : \A y \in S : x <= y
         IN <<c>> \o Sorted(S \ {c})

\* std::ptr::null() for a *const CTinyUSDPrim
NullPrim == PrimPtr(0, 0)

\* the children vector of the node behind a pointer
ChildVector(ptr) ==
    LET s == ptr[1] IN
    [j \in 1..Cardinality(ChildrenOf(tree[s], ptr[2])) |->
        PrimPtr(s, Sorted(ChildrenOf(tree[s], ptr[2]))[j])]

\* c_tinyusd_prim_num_children(prim)
c_tinyusd_prim_num_children(ptr) == Len(ChildVector(ptr))

\* c_tinyusd_prim_get_child(prim, child_index, &child_ptr): 0 and no
\* pointer for an index past the vector, 1 and the child otherwise
c_tinyusd_prim_get_child(ptr, child_index) ==
    IF child_index >= Len(ChildVector(ptr))
    THEN [result |-> 0, child_ptr |-> NullPrim]
    ELSE [result |-> 1, child_ptr |-> ChildVector(ptr)[child_index + 1]]

\* Prim::num_children
num_children(self) == c_tinyusd_prim_num_children(self)

ChildNoBoundCheck(self, index) ==
    Some(c_tinyusd_prim_get_child(self, index).child_ptr)

\* Prim::child
child(self, index) ==
    LET num == num_children(self) IN
    IF index >= num THEN None
    ELSE LET got == c_tinyusd_prim_get_child(self, index) IN
         IF got.result # 0 /\ got.child_ptr # NullPrim
         THEN Some(got.child_ptr) ELSE None

\* Prim::children
children(self) == [prim |-> self, index |-> 0, count |-> num_children(self)]

\* ChildIterator::next: the item and the iterator afterwards
ChildIteratorNext(it) ==
    IF it.index < it.count
    THEN [item |-> child(it.prim, it.index),
          it |-> [it EXCEPT !.index = @ + 1]]
    ELSE [item |-> None, it |-> it]

\* ChildIterator::size_hint
size_hint(it) ==
    LET remaining == it.count - it.index IN <<remaining, Some(remaining)>>

ChildIdle ==
    /\ asked = None
    /\ iter = None
    /\ yielded = <<>>

(***************************************************************************)
(* Type labels and classification (prim.rs:31-51 and 125-154) and the      *)
(* MeshExtractor (mesh.rs:118-167).  A type label is the sequence of its   *)
(* characters; a missing label (null pointer, or not UTF-8) is "".         *)
(***************************************************************************)
Str_Mesh == <<"M", "e", "s", "h">>
Str_Xform == <<"X", "f", "o", "r", "m">>
Str_Material == <<"M", "a", "t", "e", "r", "i", "a", "l">>
Str_Shader == <<"S", "h", "a", "d", "e", "r">>
Str_Camera == <<"C", "a", "m", "e", "r", "a">>
Str_Light == <<"L", "i", "g", "h", "t">>
Str_PointLight == <<"P", "o", "i", "n", "t">> \o Str_Light
Str_SphereLight == <<"S", "p", "h", "e", "r", "e">> \o Str_Light
Str_LightFilter == Str_Light \o <<"F", "i", "l", "t", "e", "r">>

TypeLabels ==
    {<<>>, Str_Mesh, Str_Xform, Str_Material, Str_Shader, Str_Camera,
     Str_PointLight, Str_SphereLight, Str_LightFilter}

LocalNames == {"a", "b"}

\* c_tinyusd_prim_type(prim) and c_tinyusd_prim_element_name(prim)
c_tinyusd_prim_type(ptr) == type_label[ptr[2]]

c_tinyusd_prim_element_name(ptr) == local_name[ptr[2]]

\* Prim::type_name and Prim::name
type_name(self) == c_tinyusd_prim_type(self)

prim_name(self) == c_tinyusd_prim_element_name(self)

\* the characters of a local name; the names used are one character long
NameChars(label) == <<label>>

\* Prim::path: format!("/{}", self.name())
PathWithParent(self) ==
    (IF tree[self[1]][self[2]] = 0 THEN <<>>
     ELSE <<"/">> \o NameChars(local_name[tree[self[1]][self[2]]]))
    \o <<"/">> \o NameChars(prim_name(self))

prim_path(self) == <<"/">> \o NameChars(prim_name(self))

\* str::ends_with
ends_with(str, suffix) ==
    /\ Len(str) >= Len(suffix)
    /\ SubSeq(str, Len(str) - Len(suffix) + 1, Len(str)) = suffix

Contains(str, part) ==
    \E at \in 0..(Len(str) - Len(part)) :
       SubSeq(str, at + 1, at + Len(part)) = part

is_mesh(self) == type_name(self) = Str_Mesh
is_xform(self) == type_name(self) = Str_Xform
is_material(self) == type_name(self) = Str_Material
is_shader(self) == type_name(self) = Str_Shader
is_camera(self) == type_name(self) = Str_Camera

IsLightAnywhere(self) == Contains(type_name(self), Str_Light)

is_light(self) == ends_with(type_name(self), Str_Light)

ExtractUnnamed(prim) == MeshNew("")

\* MeshExtractor::extract_mesh
extract_mesh(prim) == MeshNew(prim_name(prim))

\* MeshExtractor::meshes / collect over the nodes that traverse() returned
RECURSIVE FilterMap(_)
FilterMap(traversal) ==
    IF traversal = <<>> THEN <<>>
    ELSE (IF is_mesh(Head(traversal))
          THEN <<extract_mesh(Head(traversal))>> ELSE <<>>)
         \o FilterMap(Tail(traversal))

SceneStart ==
    /\ classified = None
    /\ extracted = None

SceneIdle ==
    /\ type_label = <<>>
    /\ local_name = <<>>
    /\ SceneStart

(***************************************************************************)
(* The GLB writer of examples/usd_to_glb.rs: build_gltf (lines 61-263) and  *)
(* write_glb (lines 265-344).                                              *)
(*                                                                         *)
(* An f32 is [k, v]: k = "num" with the (integral) value v, k = "NaN",     *)
(* k = "MAX" for f32::MAX and k = "MIN" for f32::MIN = -f32::MAX; MIN is   *)
(* below and MAX above every "num" of the model.  A byte is 0..255.        *)
(***************************************************************************)
Num(v) == [k |-> "num", v |-> v]
NaN == [k |-> "NaN", v |-> 0]
F32_MAX == [k |-> "MAX", v |-> 0]
F32_MIN == [k |-> "MIN", v |-> 0]

IsNaN(a) == a.k = "NaN"

\* a < b on f32: false as soon as one side is NaN
F32Less(a, b) ==
    /\ ~IsNaN(a) /\ ~IsNaN(b)
    /\ \/ a.k = "MIN" /\ b.k # "MIN"
       \/ a.k # "MAX" /\ b.k = "MAX"
       \/ a.k = "num" /\ b.k = "num" /\ a.v < b.v

\* f32::min and f32::max: if one argument is NaN the other is returned
F32MinOf(a, b) ==
    IF IsNaN(a) THEN b ELSE IF IsNaN(b) THEN a
    ELSE IF F32Less(b, a) THEN b ELSE a

F32MaxOf(a, b) ==
    IF IsNaN(a) THEN b ELSE IF IsNaN(b) THEN a
    ELSE IF F32Less(a, b) THEN b ELSE a

\* f32::to_le_bytes: the IEEE-754 binary32 encoding, least significant first
F32Bytes(a) ==
    CASE a.k = "NaN" -> <<0, 0, 192, 127>>
      [] a.k = "MAX" -> <<255, 255, 127, 127>>
      [] a.k = "MIN" -> <<255, 255, 127, 255>>
      [] a.k = "num" /\ a.v = 0 -> <<0, 0, 0, 0>>
      [] a.k = "num" /\ a.v = 1 -> <<0, 0, 128, 63>>
      [] a.k = "num" /\ a.v = -1 -> <<0, 0, 128, 191>>
      [] a.k = "num" /\ a.v = 2 -> <<0, 0, 0, 64>>
      [] a.k = "num" /\ a.v = 3 -> <<0, 0, 64, 64>>
      [] a.k = "num" /\ a.v = -5 -> <<0, 0, 160, 192>>

\* u32::to_le_bytes of v in 0..2^31-1
U32Bytes(v) ==
    <<v % 256, (v \div 256) % 256, (v \div 65536) % 256, v \div 16777216>>

IndexBytesShort(idx) == <<idx % 256, (idx \div 256) % 256>>

\* (idx as u32).to_le_bytes() for an i32 idx: a negative idx wraps to
\* 2^32 + idx, whose bytes are those of 2^31 + (2^31 + idx)
IndexBytes(idx) ==
    IF idx >= 0 THEN U32Bytes(idx)
    ELSE LET low == U32Bytes((idx + 2147483647) + 1) IN
         <<low[1], low[2], low[3], low[4] + 128>>

RECURSIVE Flatten(_)
Flatten(ss) == IF ss = <<>> THEN <<>> ELSE Head(ss) \o Flatten(Tail(ss))

\* for point in &triangulated.points { for &coord in point { extend } }
PointBytes(points) ==
    Flatten([j \in 1..Len(points) |->
                Flatten([i \in 1..3 |-> F32Bytes(points[j][i])])])

\* for &idx in &triangulated.face_vertex_indices { extend }
IndicesBytes(indices) ==
    Flatten([j \in 1..Len(indices) |-> IndexBytes(indices[j])])

\* while buffer_data.len() % 4 != 0 { buffer_data.push(0); }
RECURSIVE PadTo4(_)
PadTo4(buffer) ==
    IF Len(buffer) % 4 # 0 THEN PadTo4(Append(buffer, 0)) ELSE buffer

\* the bounding box loop: min[i] = min[i].min(point[i]) over the points
RECURSIVE BoundsFold(_, _, _, _)
BoundsFold(points, j, acc, op) ==
    IF j > Len(points) THEN acc
    ELSE BoundsFold(points, j + 1,
                    [i \in 1..3 |->
                       IF op = "min" THEN F32MinOf(acc[i], points[j][i])
                       ELSE F32MaxOf(acc[i], points[j][i])],
                    op)

BoundingMinOfFirst(points) == points[1]

BoundingMin(points) ==
    BoundsFold(points, 1, <<F32_MAX, F32_MAX, F32_MAX>>, "min")

BoundingMax(points) ==
    BoundsFold(points, 1, <<F32_MIN, F32_MIN, F32_MIN>>, "max")

IsSkippedNever(triangulated) == FALSE

\* the skip test on the triangulated mesh
IsSkipped(triangulated) ==
    triangulated.points = <<>> \/ triangulated.face_vertex_indices = <<>>

\* json::Root::default()
RootDefault ==
    [buffer_views |-> <<>>, accessors |-> <<>>, meshes |-> <<>>,
     nodes |-> <<>>, scenes |-> <<>>, scene |-> None, buffers |-> <<>>]

\* json::buffer::View { .. } of lines 125-136 and 139-150
PositionViewFromZero(vertex_start, vertex_byte_length) ==
    [buffer |-> 0, byte_length |-> vertex_byte_length,
     byte_offset |-> Some(0), byte_stride |-> Some(12),
     target |-> Some("ArrayBuffer")]

PositionView(vertex_start, vertex_byte_length) ==
    [buffer |-> 0, byte_length |-> vertex_byte_length,
     byte_offset |-> Some(vertex_start), byte_stride |-> Some(12),
     target |-> Some("ArrayBuffer")]

IndexView(index_start, index_byte_length) ==
    [buffer |-> 0, byte_length |-> index_byte_length,
     byte_offset |-> Some(index_start), byte_stride |-> None,
     target |-> Some("ElementArrayBuffer")]

\* json::Accessor { .. } of lines 154-169 and 172-187
PositionAccessor(position_buffer_view_idx, points) ==
    [buffer_view |-> Some(position_buffer_view_idx), byte_offset |-> Some(0),
     count |-> Len(points), component_type |-> "F32", type_ |-> "Vec3",
     min |-> Some(BoundingMin(points)), max |-> Some(BoundingMax(points))]

IndexAccessor(index_buffer_view_idx, indices) ==
    [buffer_view |-> Some(index_buffer_view_idx), byte_offset |-> Some(0),
     count |-> Len(indices), component_type |-> "U32", type_ |-> "Scalar",
     min |-> None, max |-> None]

PrimitiveSwapped(position_accessor_idx, index_accessor_idx) ==
    [attributes |-> [POSITION |-> index_accessor_idx],
     indices |-> Some(position_accessor_idx), material |-> None,
     mode |-> "Triangles"]

\* json::mesh::Primitive { .. } of lines 190-206
Primitive(position_accessor_idx, index_accessor_idx) ==
    [attributes |-> [POSITION |-> position_accessor_idx],
     indices |-> Some(index_accessor_idx), material |-> None,
     mode |-> "Triangles"]

\* the body of the loop of build_gltf for a mesh that is not skipped; b is
\* [buffer_data, root, mesh_primitives]
BuildWritten(b, name, triangulated) ==
    LET vertex_start == Len(b.buffer_data)
        with_points == b.buffer_data \o PointBytes(triangulated.points)
        vertex_end == Len(with_points)
        vertex_byte_length == vertex_end - vertex_start
        padded_points == PadTo4(with_points)
        index_start == Len(padded_points)
        with_indices ==
            padded_points \o IndicesBytes(triangulated.face_vertex_indices)
        index_end == Len(with_indices)
        index_byte_length == index_end - index_start
        padded_indices == PadTo4(with_indices)
        position_buffer_view_idx == Len(b.root.buffer_views)
        views1 == Append(b.root.buffer_views,
                         PositionView(vertex_start, vertex_byte_length))
        index_buffer_view_idx == Len(views1)
        views2 == Append(views1, IndexView(index_start, index_byte_length))
        position_accessor_idx == Len(b.root.accessors)
        accessors1 ==
            Append(b.root.accessors,
                   PositionAccessor(position_buffer_view_idx,
                                    triangulated.points))
        index_accessor_idx == Len(accessors1)
        accessors2 ==
            Append(accessors1,
                   IndexAccessor(index_buffer_view_idx,
                                 triangulated.face_vertex_indices))
    IN  [buffer_data |-> padded_indices,
         root |-> [b.root EXCEPT !.buffer_views = views2,
                                 !.accessors = accessors2],
         mesh_primitives |->
            Append(b.mesh_primitives,
                   <<name, Primitive(position_accessor_idx,
                                     index_accessor_idx)>>)]

\* one iteration of the loop of build_gltf (lines 71-208) on a mesh whose
\* triangulation returned
BuildMesh(b, name, triangulated) ==
    IF IsSkipped(triangulated) THEN b ELSE BuildWritten(b, name, triangulated)

\* for (name, primitive) in mesh_primitives { .. } (lines 211-236)
RECURSIVE CreateMeshes(_, _, _)
CreateMeshes(r, mesh_primitives, j) ==
    IF j > Len(mesh_primitives) THEN r
    ELSE LET name == mesh_primitives[j][1]
             primitive == mesh_primitives[j][2]
             mesh_idx == Len(r.meshes)
         IN  CreateMeshes(
                [r EXCEPT
                   !.meshes = Append(@, [name |-> Some(name),
                                         primitives |-> <<primitive>>]),
                   !.nodes = Append(@, [mesh |-> Some(mesh_idx),
                                        name |-> Some(name)])],
                mesh_primitives, j + 1)

\* lines 238-257: the scene, the default scene and the buffer
BuildFinish(b) ==
    LET r == CreateMeshes(b.root, b.mesh_primitives, 1)
        node_indices == [j \in 1..Len(r.nodes) |-> j - 1]
    IN  [r EXCEPT
           !.scenes = Append(@, [name |-> Some("Scene"),
                                 nodes |-> node_indices]),
           !.scene = Some(0),
           !.buffers = Append(@, [byte_length |-> Len(b.buffer_data),
                                  uri |-> None])]

RebuildMeshNoSkip(buffer, triangulated) ==
    PadTo4(PadTo4(buffer \o PointBytes(triangulated.points))
           \o IndicesBytes(triangulated.face_vertex_indices))

\* one iteration of the loop of write_glb (lines 273-300) on a mesh whose
\* triangulation returned
RebuildMesh(buffer, triangulated) ==
    IF triangulated.points = <<>> \/ triangulated.face_vertex_indices = <<>>
    THEN buffer
    ELSE PadTo4(PadTo4(buffer \o PointBytes(triangulated.points))
                \o IndicesBytes(triangulated.face_vertex_indices))

\* lines 307-317 of write_glb
PaddingFull(len) == 4 - (len % 4)

Padding(len) == (4 - (len % 4)) % 4

TotalLengthNoHeader(json_chunk_length, bin_chunk_length) ==
    8 + json_chunk_length + 8 + bin_chunk_length

TotalLength(json_chunk_length, bin_chunk_length) ==
    12 + 8 + json_chunk_length + 8 + bin_chunk_length

\* `x as u32` of a usize keeps the low 32 bits: the low 16 bits and the 16
\* bits above them
AsU32(x) == (x % 65536) + 65536 * ((x \div 65536) % 65536)

\* the arguments of the successive file.write_all calls (lines 323-341)
WriteCalls(json_bytes, buffer) ==
    LET json_padding == Padding(Len(json_bytes))
        json_chunk_length == Len(json_bytes) + json_padding
        bin_padding == Padding(Len(buffer))
        bin_chunk_length == Len(buffer) + bin_padding
        total_length == TotalLength(json_chunk_length, bin_chunk_length)
    IN  << <<103, 108, 84, 70>>,
           U32Bytes(2),
           U32Bytes(AsU32(total_length)),
           U32Bytes(AsU32(json_chunk_length)),
           <<74, 83, 79, 78>>,
           json_bytes >>
        \o [j \in 1..json_padding |-> <<32>>]
        \o << U32Bytes(AsU32(bin_chunk_length)),
              <<66, 73, 78, 0>>,
              buffer >>
        \o [j \in 1..bin_padding |-> <<0>>]

\* The meshes of the writer's specification: no points, the three points
\* of a triangle, the two points of the bounding-box example, a point with
\* a NaN coordinate; no face, a triangle, a face of two vertices, a face
\* that claims more vertices than there are indices.
Point(x, y, z) == <<Num(x), Num(y), Num(z)>>

GlbPoints ==
    {<<>>,
     <<Point(0, 0, 0), Point(1, 0, 0), Point(0, 1, 0)>>,
     <<Point(-1, 2, 0), Point(3, -5, 1)>>,
     << <<NaN, Num(0), Num(1)>> >>}

GlbFaces ==
    {<< <<>>, <<>> >>, << <<3>>, <<0, 1, 2>> >>, << <<2>>, <<0, 1>> >>,
     << <<3>>, <<0, 1>> >>}

GlbNames == {"a", "b"}

GlbMesh(name, points, face) ==
    [MeshNew(name) EXCEPT !.points = points,
                          !.face_vertex_counts = face[1],
                          !.face_vertex_indices = face[2]]

GlbMeshes ==
    {GlbMesh(n, p, f) : n \in GlbNames, p \in GlbPoints, f \in GlbFaces}

\* gltf_json::serialize::to_string(root): some non-empty text
JsonTexts == {[j \in 1..n |-> 123] : n \in 1..MaxJson}

BuildStart ==
    [buffer_data |-> <<>>, root |-> RootDefault, mesh_primitives |-> <<>>]

GlbStart ==
    /\ gpc = "build"
    /\ loop_idx = 0
    /\ build = BuildStart
    /\ gltf = None
    /\ buffer_data = <<>>
    /\ serialized = <<>>
    /\ glb = Absent
    /\ written = NoReturn

GlbIdle ==
    /\ meshes = <<>>
    /\ GlbStart

\* StageTraversal { stage, prims, index: 0 } on which next() was not called
IterIdle ==
    /\ trav_index = [t \in Threads |-> 0]
    /\ nexts = [t \in Threads |-> <<>>]

MoreIdle == LifeIdle /\ GlbIdle /\ ChildIdle /\ SceneIdle /\ IterIdle

(***************************************************************************)
(* The triangulation specification: triangulate, applied to each input and  *)
(* to its own result.                                                      *)
(***************************************************************************)
InitMesh ==
    /\ (mesh = QuadMesh \/ IsInputMesh)
    /\ overflow_checks \in BOOLEAN
    /\ MeshStart
    /\ TravIdle
    /\ LoadIdle
    /\ MoreIdle

\* let t = mesh.triangulate();
Triangulate ==
    /\ pcM = "input"
    /\ out' = triangulate(mesh, overflow_checks)
    /\ pcM' = "once"
    /\ UNCHANGED <<mesh, overflow_checks, out2, travVars, loadVars, moreVars>>

\* let tt = t.triangulate();
TriangulateAgain ==
    /\ pcM = "once"
    /\ out.tag = "Ok"
    /\ out2' = triangulate(out.mesh, overflow_checks)
    /\ pcM' = "twice"
    /\ UNCHANGED <<mesh, overflow_checks, out, travVars, loadVars, moreVars>>

NextMesh == Triangulate \/ TriangulateAgain

SpecMesh == InitMesh /\ [][NextMesh]_vars

(***************************************************************************)
(* The traversal specifications.                                           *)
(***************************************************************************)
\* stage.traverse() on stage s: StageTraversal::new up to the end of the
\* clear block
TraverseBegin(t) ==
    /\ tpc[t] \in {"idle", "done"}
    /\ calls[t] < MaxCalls
    /\ \E s \in Stages : target' = [target EXCEPT ![t] = s]
    /\ TRAVERSAL_PRIMS' = Clear(TRAVERSAL_PRIMS)
    /\ tpc' = [tpc EXCEPT ![t] = "walk"]
    /\ walked' = [walked EXCEPT ![t] = 0]
    /\ prev' = [prev EXCEPT ![t] =
                  IF calls[t] = 0 THEN NoPrev
                  ELSE [stage |-> target[t], prims |-> prims[t]]]
    /\ calls' = [calls EXCEPT ![t] = @ + 1]
    /\ UNCHANGED <<tree, prims, meshVars, loadVars, moreVars>>

\* one callback of c_tinyusd_stage_traverse: collect_prim
Collect(t) ==
    /\ tpc[t] = "walk"
    /\ walked[t] < Len(NodeSequence(target[t]))
    /\ TRAVERSAL_PRIMS' =
          Push(TRAVERSAL_PRIMS, NodeSequence(target[t])[walked[t] + 1])
    /\ walked' = [walked EXCEPT ![t] = @ + 1]
    /\ UNCHANGED <<tree, target, tpc, prims, prev, calls, meshVars, loadVars,
                   moreVars>>

\* the walk has ended: read the buffer back and return the StageTraversal
ReadBack(t) ==
    /\ tpc[t] = "walk"
    /\ walked[t] = Len(NodeSequence(target[t]))
    /\ prims' = [prims EXCEPT ![t] = ReadBackOf(TRAVERSAL_PRIMS)]
    /\ tpc' = [tpc EXCEPT ![t] = "done"]
    /\ UNCHANGED <<tree, TRAVERSAL_PRIMS, target, walked, prev, calls, meshVars,
                   loadVars, moreVars>>

TraverseStep(t) == TraverseBegin(t) \/ Collect(t) \/ ReadBack(t)

InitTrav ==
    /\ mesh = QuadMesh
    /\ overflow_checks = FALSE
    /\ MeshStart
    /\ tree \in [Stages -> Trees]
    /\ TravStart
    /\ LoadIdle
    /\ MoreIdle

\* one thread, calling traverse() up to MaxCalls times
NextSeq == TraverseStep(1)

SpecSeq == InitTrav /\ [][NextSeq]_vars

\* two threads, each calling traverse() once
NextConc ==
    \E t \in Threads :
       \/ calls[t] = 0 /\ TraverseBegin(t)
       \/ Collect(t)
       \/ ReadBack(t)

SpecConc == InitTrav /\ [][NextConc]_vars

(***************************************************************************)
(* The iteration specification: two threads, each calling traverse() once  *)
(* and then next() on the StageTraversal it got, up to MaxExtraNext times  *)
(* past its end.  A StageTraversal owns its prims (a Vec) and its index    *)
(* (stage.rs:178-183 and 225-229).                                         *)
(***************************************************************************)
\* Iterator::next for StageTraversal (stage.rs:236-244)
TraversalNextNoAdvance(prims_, index_) ==
    IF index_ < Len(prims_)
    THEN [item |-> Some(prims_[index_ + 1]), index |-> index_]
    ELSE [item |-> None, index |-> index_]

TraversalNext(prims_, index_) ==
    IF index_ < Len(prims_)
    THEN [item |-> Some(prims_[index_ + 1]), index |-> index_ + 1]
    ELSE [item |-> None, index |-> index_]

\* the end of StageTraversal::new: read the buffer back, index: 0
IterReadBack(t) ==
    /\ tpc[t] = "walk"
    /\ walked[t] = Len(NodeSequence(target[t]))
    /\ prims' = [prims EXCEPT ![t] = ReadBackOf(TRAVERSAL_PRIMS)]
    /\ trav_index' = [trav_index EXCEPT ![t] = 0]
    /\ tpc' = [tpc EXCEPT ![t] = "done"]
    /\ UNCHANGED <<tree, TRAVERSAL_PRIMS, target, walked, prev, calls, nexts,
                   meshVars, loadVars, lifeVars, glbVars, childVars,
                   sceneVars>>

\* traversal.next()
IterNextCall(t) ==
    /\ tpc[t] = "done"
    /\ Len(nexts[t]) < Len(prims[t]) + MaxExtraNext
    /\ LET r == TraversalNext(prims[t], trav_index[t]) IN
       /\ trav_index' = [trav_index EXCEPT ![t] = r.index]
       /\ nexts' = [nexts EXCEPT ![t] = Append(@, r.item)]
    /\ UNCHANGED <<meshVars, travVars, loadVars, lifeVars, glbVars, childVars,
                   sceneVars>>

NextIter ==
    \E t \in Threads :
       \/ calls[t] = 0 /\ TraverseBegin(t)
       \/ Collect(t)
       \/ IterReadBack(t)
       \/ IterNextCall(t)

SpecIter == InitTrav /\ [][NextIter]_vars

(***************************************************************************)
(* The load specification: two in-memory loads in threads of one process.  *)
(***************************************************************************)
InitLoad ==
    /\ mesh = QuadMesh
    /\ overflow_checks = FALSE
    /\ MeshStart
    /\ TravIdle
    /\ fs = [p \in Paths |-> Absent]
    /\ data \in [Loads -> SeqsUpTo(Bytes, MaxData)]
    /\ ext \in [Loads -> Formats]
    /\ lpc = [l \in Loads |-> "create"]
    /\ parsed = [l \in Loads |-> NotParsed]
    /\ returned = [l \in Loads |-> NoReturn]
    /\ MoreIdle

\* a `?` of tempfile_for_data returns the io::Error; nothing else happens
ReturnIoError(l) ==
    /\ returned' = [returned EXCEPT ![l] = Err("IoError")]
    /\ lpc' = [lpc EXCEPT ![l] = "returned"]

\* let mut file = std::fs::File::create(&path)?;
Create(l) ==
    /\ lpc[l] = "create"
    /\ \/ /\ fs' = CreateFile(fs, TempPath(ext[l]))
          /\ lpc' = [lpc EXCEPT ![l] = "write"]
          /\ UNCHANGED returned
       \/ /\ ReturnIoError(l)
          /\ UNCHANGED fs
    /\ UNCHANGED <<data, ext, parsed, meshVars, travVars, moreVars>>

\* file.write_all(data)?;
WriteAll(l) ==
    /\ lpc[l] = "write"
    /\ \/ /\ fs' = WriteFile(fs, TempPath(ext[l]), data[l])
          /\ lpc' = [lpc EXCEPT ![l] = "sync"]
          /\ UNCHANGED returned
       \/ /\ \E n \in 0..(Len(data[l]) - 1) :
                fs' = WriteFile(fs, TempPath(ext[l]), SubSeq(data[l], 1, n))
          /\ ReturnIoError(l)
    /\ UNCHANGED <<data, ext, parsed, meshVars, travVars, moreVars>>

\* file.sync_all()?; Ok(TempFile { path })
SyncAll(l) ==
    /\ lpc[l] = "sync"
    /\ \/ /\ lpc' = [lpc EXCEPT ![l] = "open"]
          /\ UNCHANGED returned
       \/ ReturnIoError(l)
    /\ UNCHANGED <<fs, data, ext, parsed, meshVars, travVars, moreVars>>

\* Self::open(temp_file.path()), and temp_file going out of scope
Open(l) ==
    /\ lpc[l] = "open"
    /\ \/ /\ returned' = [returned EXCEPT ![l] = Err("NullPointer")]
          /\ UNCHANGED parsed
       \/ LET file == fs[TempPath(ext[l])] IN
          /\ parsed' = [parsed EXCEPT ![l] = Parsed(file.bytes)]
          /\ returned' = [returned EXCEPT ![l] =
                          IF LoadSucceeds(file) THEN OkStage(file.bytes)
                          ELSE Err("LoadError")]
    /\ fs' = DropTempFile(fs, TempPath(ext[l]))
    /\ lpc' = [lpc EXCEPT ![l] = "returned"]
    /\ UNCHANGED <<data, ext, meshVars, travVars, moreVars>>

NextLoad == \E l \in Loads : Create(l) \/ WriteAll(l) \/ SyncAll(l) \/ Open(l)

SpecLoad == InitLoad /\ [][NextLoad]_vars

(***************************************************************************)
(* The texts of Stage::open (stage.rs:55-100).  A path and the engine's    *)
(* diagnostic are byte strings; the bytes used here are ASCII bytes and    *)
(* 0xFF, which no UTF-8 text contains.  A Rust String is held as its UTF-8 *)
(* bytes.                                                                  *)
(***************************************************************************)
\* "a", a path that is not UTF-8, "a\0b", and a path that is neither
PathTexts == {<<97>>, <<255>>, <<97, 0, 98>>, <<255, 0>>}

\* Path::to_str is Some, CStr::to_str is Ok: the bytes are valid UTF-8
IsUtf8(bytes) == \A j \in 1..Len(bytes) : bytes[j] < 128

\* CString::new(path_str) is an Err: the text holds a NUL byte
HasNul(bytes) == \E j \in 1..Len(bytes) : bytes[j] = 0

\* CStr::to_string_lossy: U+FFFD (EF BF BD) in place of each invalid byte
to_string_lossy(bytes) ==
    Flatten([j \in 1..Len(bytes) |->
               IF bytes[j] < 128 THEN <<bytes[j]>> ELSE <<239, 191, 189>>])

\* "Path is not valid UTF-8" and "Unknown error"
Msg_NotUtf8 ==
    <<80, 97, 116, 104, 32, 105, 115, 32, 110, 111, 116, 32, 118, 97, 108,
      105, 100, 32, 85, 84, 70, 45, 56>>

Msg_Unknown == <<85, 110, 107, 110, 111, 119, 110, 32, 101, 114, 114, 111, 114>>

\* c_tinyusd_string_str(err) after a failed load: a null pointer, or the
\* diagnostic "", "e", or "e" followed by the byte 0xFF
ErrStrings == {None, Some(<<>>), Some(<<101>>), Some(<<101, 255>>)}

\* let error_msg = if result == 0 { .. } else { String::new() }
ErrorMsg(result, err_ptr) ==
    IF result = 0
    THEN IF err_ptr # None THEN to_string_lossy(err_ptr[1]) ELSE Msg_Unknown
    ELSE <<>>

\* Err(Error::LoadError(text)), Err(Error::InvalidPath(text)), ..
ErrText(kind, text) == [tag |-> "Err", kind |-> kind, text |-> text]

(***************************************************************************)
(* The lifetime specification: two threads, each of which makes one Stage  *)
(* (Stage::new or Stage::open), may traverse it and read the nodes of the  *)
(* traversal, and drops it.  The borrow `&'a Stage` of StageTraversal<'a>   *)
(* and Prim<'a> keeps a thread from dropping its Stage while it is inside  *)
(* traverse() and from reading its nodes after the drop.                   *)
(***************************************************************************)
InitLife ==
    /\ MeshIdle
    /\ TravIdle
    /\ LoadIdle
    /\ LifeIdle
    /\ GlbIdle
    /\ ChildIdle
    /\ IterIdle
    /\ SceneIdle

OtherThanLife ==
    <<meshVars, travVars, loadVars, glbVars, childVars, sceneVars, iterVars>>

\* impl Drop for Stage: if !self.inner.is_null() { c_tinyusd_stage_free(..) }
DropHeap(h, ptr) == IF ptr # Null THEN Free(h, ptr) ELSE h

DropCount(f, ptr) == IF ptr # Null THEN CountFree(f, ptr) ELSE f

\* Stage::new(): Err(NullPointer) on a null pointer, Ok(Stage { inner }) else
StageNew(t) ==
    /\ life[t] = "start"
    /\ \/ /\ life' = [life EXCEPT ![t] = "failed"]
          /\ UNCHANGED <<heap, inner>>
       \/ \E s \in FreshStages :
             /\ heap' = Allocate(heap, s)
             /\ inner' = [inner EXCEPT ![t] = s]
             /\ life' = [life EXCEPT ![t] = "owned"]
    /\ UNCHANGED <<free_calls, stale, opened, OtherThanLife>>

\* Stage::open(path) (stage.rs:55-100)
StageOpen(t) ==
    /\ life[t] = "start"
    /\ \E path \in PathTexts :
          IF ~IsUtf8(path)
          THEN \* to_str() is None: ok_or_else(..)? returns
               /\ opened' = [opened EXCEPT ![t] =
                     [path |-> path, load |-> None,
                      ret |-> ErrText("InvalidPath", Msg_NotUtf8)]]
               /\ life' = [life EXCEPT ![t] = "failed"]
               /\ UNCHANGED <<heap, free_calls, inner, tree>>
          ELSE IF HasNul(path)
          THEN \* CString::new(path_str)? returns, through From<NulError>
               /\ opened' = [opened EXCEPT ![t] =
                     [path |-> path, load |-> None,
                      ret |-> ErrText("NulError", <<>>)]]
               /\ life' = [life EXCEPT ![t] = "failed"]
               /\ UNCHANGED <<heap, free_calls, inner, tree>>
          ELSE \/ \* Self::new()? is an Err
                  /\ opened' = [opened EXCEPT ![t] =
                        [path |-> path, load |-> None,
                         ret |-> ErrText("NullPointer", <<>>)]]
                  /\ life' = [life EXCEPT ![t] = "failed"]
                  /\ UNCHANGED <<heap, free_calls, inner, tree>>
               \/ \* the load fails: `stage` is dropped on the way out
                  \E s \in FreshStages, err \in ErrStrings :
                     /\ heap' = DropHeap(Allocate(heap, s), s)
                     /\ free_calls' = DropCount(free_calls, s)
                     /\ inner' = [inner EXCEPT ![t] = s]
                     /\ life' = [life EXCEPT ![t] = "failed"]
                     /\ opened' = [opened EXCEPT ![t] =
                           [path |-> path,
                            load |-> Some([result |-> 0, err |-> err]),
                            ret |-> ErrText("LoadError", ErrorMsg(0, err))]]
                     /\ UNCHANGED tree
               \/ \* the load succeeds: Ok(stage)
                  \E s \in FreshStages, tr \in Trees :
                     /\ heap' = Allocate(heap, s)
                     /\ tree' = [tree EXCEPT ![s] = tr]
                     /\ inner' = [inner EXCEPT ![t] = s]
                     /\ life' = [life EXCEPT ![t] = "owned"]
                     /\ opened' = [opened EXCEPT ![t] =
                           [path |-> path,
                            load |-> Some([result |-> 1, err |-> Some(<<>>)]),
                            ret |-> OkStage(s)]]
                     /\ UNCHANGED free_calls
    /\ UNCHANGED <<stale, TRAVERSAL_PRIMS, target, tpc, walked, prims, prev,
                   calls, glbVars, childVars, sceneVars, iterVars, meshVars,
                   loadVars>>

\* stage.traverse() on the thread's own Stage
LifeTraverse(t) ==
    /\ life[t] = "owned"
    /\ calls[t] = 0
    /\ TraverseBegin(t)
    /\ target'[t] = inner[t]

\* prim.name(), prim.type_name(), ... on a node of the traversal: the engine
\* reads the node, which lives in the memory of the node's stage
PrimRead(t) ==
    /\ life[t] = "owned"
    /\ tpc[t] = "done"
    /\ \E i \in 1..Len(prims[t]) : stale' = Access(stale, prims[t][i][1])
    /\ UNCHANGED <<heap, free_calls, inner, life, opened, OtherThanLife>>

\* the Stage goes out of scope
StageDrop(t) ==
    /\ life[t] = "owned"
    /\ tpc[t] # "walk"
    /\ heap' = DropHeap(heap, inner[t])
    /\ free_calls' = DropCount(free_calls, inner[t])
    /\ life' = [life EXCEPT ![t] = "dropped"]
    /\ UNCHANGED <<inner, stale, opened, OtherThanLife>>

NextLife ==
    \E t \in Threads :
       \/ StageNew(t)
       \/ StageOpen(t)
       \/ LifeTraverse(t)
       \/ Collect(t)
       \/ ReadBack(t)
       \/ PrimRead(t)
       \/ StageDrop(t)

SpecLife == InitLife /\ [][NextLife]_vars

(***************************************************************************)
(* The writer's specification: main's build_gltf(&meshes) followed by      *)
(* write_glb(output_path, &mut gltf, &meshes), one loop iteration a step.  *)
(***************************************************************************)
InitGlb ==
    /\ MeshIdle
    /\ TravIdle
    /\ LoadIdle
    /\ LifeIdle
    /\ ChildIdle
    /\ IterIdle
    /\ SceneIdle
    /\ meshes \in SeqsUpTo(GlbMeshes, MaxMeshes)
    /\ GlbStart

OtherThanGlb ==
    <<meshVars, travVars, loadVars, lifeVars, childVars, sceneVars, iterVars>>

\* build_gltf: one iteration of `for (_mesh_idx, mesh) in meshes.iter()`
GlbBuildMesh ==
    /\ gpc = "build"
    /\ loop_idx < Len(meshes)
    /\ LET m == meshes[loop_idx + 1]
           t == triangulate(m, overflow_checks)
       IN  IF t.tag = "Panic"
           THEN gpc' = "panicked" /\ UNCHANGED <<loop_idx, build>>
           ELSE /\ build' = BuildMesh(build, m.name, t.mesh)
                /\ loop_idx' = loop_idx + 1
                /\ UNCHANGED gpc
    /\ UNCHANGED <<meshes, gltf, buffer_data, serialized, glb, written,
                   OtherThanGlb>>

\* build_gltf after the loop, up to `root`
GlbBuildFinish ==
    /\ gpc = "build"
    /\ loop_idx = Len(meshes)
    /\ gltf' = Some(BuildFinish(build))
    /\ gpc' = "rebuild"
    /\ loop_idx' = 0
    /\ UNCHANGED <<meshes, build, buffer_data, serialized, glb, written,
                   OtherThanGlb>>

\* write_glb: one iteration of `for mesh in meshes`
GlbRebuildMesh ==
    /\ gpc = "rebuild"
    /\ loop_idx < Len(meshes)
    /\ LET t == triangulate(meshes[loop_idx + 1], overflow_checks)
       IN  IF t.tag = "Panic"
           THEN gpc' = "panicked" /\ UNCHANGED <<loop_idx, buffer_data>>
           ELSE /\ buffer_data' = RebuildMesh(buffer_data, t.mesh)
                /\ loop_idx' = loop_idx + 1
                /\ UNCHANGED gpc
    /\ UNCHANGED <<meshes, build, gltf, serialized, glb, written,
                   OtherThanGlb>>

RECURSIVE Concat(_, _)
Concat(calls_, n) ==
    IF n = 0 THEN <<>> ELSE Concat(calls_, n - 1) \o calls_[n]

\* write_glb after the loop: serialize, create the file, write it
GlbWrite ==
    /\ gpc = "rebuild"
    /\ loop_idx = Len(meshes)
    /\ \/ \* to_string(root)? or File::create(path)? is an Err
          /\ written' = Err("IoError")
          /\ UNCHANGED <<serialized, glb>>
       \/ \E text \in JsonTexts :
             LET write_calls == WriteCalls(text, buffer_data) IN
             /\ serialized' = text
             /\ \/ \* every write_all returns Ok
                   /\ glb' = FileOf(Concat(write_calls, Len(write_calls)))
                   /\ written' = [tag |-> "Ok"]
                \/ \* the write_all after the first n calls is an Err
                   \E n \in 0..(Len(write_calls) - 1) :
                      /\ glb' = FileOf(Concat(write_calls, n))
                      /\ written' = Err("IoError")
    /\ gpc' = "done"
    /\ UNCHANGED <<meshes, loop_idx, build, gltf, buffer_data, OtherThanGlb>>

NextGlb == GlbBuildMesh \/ GlbBuildFinish \/ GlbRebuildMesh \/ GlbWrite

SpecGlb == InitGlb /\ [][NextGlb]_vars

(***************************************************************************)
(* The child specification: on the nodes of one stage, either one          *)
(* child(index) call, or children() and calls of next() on its iterator.   *)
(***************************************************************************)
InitChild ==
    /\ MeshIdle
    /\ \E tr \in Trees : tree = [s \in Stages |-> IF s = 1 THEN tr ELSE <<>>]
    /\ TravStart
    /\ LoadIdle
    /\ LifeIdle
    /\ GlbIdle
    /\ ChildIdle
    /\ IterIdle
    /\ SceneIdle

OtherThanChild ==
    <<meshVars, travVars, loadVars, lifeVars, glbVars, sceneVars, iterVars>>

\* prim.child(index)
ChildCall ==
    /\ asked = None /\ iter = None
    /\ \E n \in 1..Len(tree[1]), index \in 0..MaxIndex :
          asked' = Some([prim |-> PrimPtr(1, n), index |-> index,
                         result |-> child(PrimPtr(1, n), index)])
    /\ UNCHANGED <<iter, yielded, OtherThanChild>>

\* prim.children()
ChildrenCall ==
    /\ asked = None /\ iter = None
    /\ \E n \in 1..Len(tree[1]) : iter' = Some(children(PrimPtr(1, n)))
    /\ UNCHANGED <<asked, yielded, OtherThanChild>>

\* iterator.next()
IterNext ==
    /\ iter # None
    /\ Len(yielded) < iter[1].count + MaxExtraNext
    /\ iter' = Some(ChildIteratorNext(iter[1]).it)
    /\ yielded' = Append(yielded, ChildIteratorNext(iter[1]).item)
    /\ UNCHANGED <<asked, OtherThanChild>>

NextChild == ChildCall \/ ChildrenCall \/ IterNext

SpecChild == InitChild /\ [][NextChild]_vars

(***************************************************************************)
(* The scene specification: on one stage whose nodes have type labels and  *)
(* names, either one node is classified, or MeshExtractor::collect runs:   *)
(* stage.traverse() and then the filter_map over what it returned.         *)
(***************************************************************************)
InitScene ==
    /\ MeshIdle
    /\ \E tr \in Trees :
          /\ tree = [s \in Stages |-> IF s = 1 THEN tr ELSE <<>>]
          /\ type_label \in [1..Len(tr) -> TypeLabels]
          /\ local_name \in [1..Len(tr) -> LocalNames]
    /\ TravStart
    /\ LoadIdle
    /\ LifeIdle
    /\ GlbIdle
    /\ ChildIdle
    /\ IterIdle
    /\ SceneStart

OtherThanScene ==
    <<meshVars, travVars, loadVars, lifeVars, glbVars, childVars, iterVars>>

\* prim.is_mesh(), .., prim.is_light() and prim.path() on one node
Classify ==
    /\ classified = None
    /\ calls[1] = 0
    /\ \E n \in 1..Len(tree[1]) :
          LET self == PrimPtr(1, n) IN
          classified' =
             Some([prim |-> self, is_mesh |-> is_mesh(self),
                   is_xform |-> is_xform(self),
                   is_material |-> is_material(self),
                   is_shader |-> is_shader(self),
                   is_camera |-> is_camera(self),
                   is_light |-> is_light(self),
                   path |-> prim_path(self)])
    /\ UNCHANGED <<type_label, local_name, extracted, OtherThanScene>>

\* MeshExtractor::meshes: self.stage.traverse()
ExtractTraverse ==
    /\ classified = None
    /\ calls[1] = 0
    /\ TraverseBegin(1)
    /\ target'[1] = 1

\* the filter_map of MeshExtractor::meshes, collected
ExtractCollect ==
    /\ tpc[1] = "done"
    /\ extracted = None
    /\ extracted' = Some(FilterMap(prims[1]))
    /\ UNCHANGED <<type_label, local_name, classified, OtherThanScene>>

NextScene ==
    Classify \/ ExtractTraverse \/ Collect(1) \/ ReadBack(1) \/ ExtractCollect

SpecScene == InitScene /\ [][NextScene]_vars

(***************************************************************************)
(* Properties of Mesh::triangulate.                                        *)
(***************************************************************************)
Done1 == pcM \in {"once", "twice"}

NonNegative(counts) == \A k \in 1..Len(counts) : counts[k] >= 0

\* the Mesh invariant of the data model
WellFormed(m) ==
    /\ NonNegative(m.face_vertex_counts)
    /\ Sum(m.face_vertex_counts) = Len(m.face_vertex_indices)
    /\ \A k \in 1..Len(m.normals) : Len(m.normals[k]) = Len(m.points)
    /\ \A k \in 1..Len(m.uvs) : Len(m.uvs[k]) = Len(m.points)

\* where face k starts in face_vertex_indices (0-based): the counts before it
FaceStart(counts, k) == Sum(SubSeq(counts, 1, k - 1))

\* the triangles a face of n vertices is to yield
TriOf(n) == IF n >= 3 THEN n - 2 ELSE 0

RECURSIVE TriBefore(_, _)
TriBefore(counts, k) ==
    IF k <= 1 THEN 0 ELSE TriBefore(counts, k - 1) + TriOf(counts[k - 1])

TotalTri(counts) == TriBefore(counts, Len(counts) + 1)

\* the vertices v[0..n-1] of face k
FaceVerts(m, k) ==
    SubSeq(m.face_vertex_indices,
           FaceStart(m.face_vertex_counts, k) + 1,
           FaceStart(m.face_vertex_counts, k) + m.face_vertex_counts[k])

HasVerts(m, k) ==
    /\ FaceStart(m.face_vertex_counts, k) >= 0
    /\ FaceStart(m.face_vertex_counts, k) + m.face_vertex_counts[k]
          <= Len(m.face_vertex_indices)

\* (v[0], v[i], v[i+1]) for i = 1 .. n-2, in increasing i
FanOf(v) ==
    [j \in 1..(3 * (Len(v) - 2)) |->
        IF (j - 1) % 3 = 0 THEN v[1] ELSE v[((j - 1) \div 3) + 1 + ((j - 1) % 3)]]

RECURSIVE ExpectedIndices(_, _)
ExpectedIndices(m, k) ==
    IF k = 0 THEN <<>>
    ELSE ExpectedIndices(m, k - 1) \o
         (IF m.face_vertex_counts[k] >= 3 /\ HasVerts(m, k)
          THEN FanOf(FaceVerts(m, k)) ELSE <<>>)

\* the part of the output written for face k
OutSegment(m, o, k) ==
    SubSeq(o.face_vertex_indices,
           3 * TriBefore(m.face_vertex_counts, k) + 1,
           3 * TriBefore(m.face_vertex_counts, k + 1))

C1_Body ==
    /\ out.tag = "Ok"
    /\ Len(out.mesh.face_vertex_counts) = TotalTri(mesh.face_vertex_counts)
    /\ Len(out.mesh.face_vertex_indices) = 3 * TotalTri(mesh.face_vertex_counts)
    /\ \A k \in 1..Len(mesh.face_vertex_counts) :
          mesh.face_vertex_counts[k] >= 3 =>
             LET seg == OutSegment(mesh, out.mesh, k)
                 v == FaceVerts(mesh, k)
             IN /\ Len(seg) = 3 * (mesh.face_vertex_counts[k] - 2)
                /\ seg[1] = v[1]
                /\ seg[2] = v[2]
                /\ seg[Len(seg)] = v[Len(v)]

\* C1 (as amended): for every mesh whose face_vertex_counts are all
\* non-negative and sum to len(face_vertex_indices), triangulate returns
\* n-2 triangles for each face with n >= 3 and none for a face with n < 3
\* (sum over faces of max(n-2, 0) triangles in all), and the triangles of
\* each face are read from that face's own position: dropped faces are
\* skipped over.
C1_TriangleCount ==
    (Done1 /\ NonNegative(mesh.face_vertex_counts)
           /\ Sum(mesh.face_vertex_counts) = Len(mesh.face_vertex_indices))
    => C1_Body

\* C1 (as stated): the same for every mesh whose counts sum to
\* len(face_vertex_indices), negative counts included.
C1_Original ==
    (Done1 /\ Sum(mesh.face_vertex_counts) = Len(mesh.face_vertex_indices))
    => C1_Body

C1_Witness ==
    /\ pcM = "once"
    /\ mesh.face_vertex_counts = <<2, 3>>
    /\ mesh.face_vertex_indices = <<0, 0, 1, 0, 1>>
    /\ out.tag = "Ok"
    /\ out.mesh.face_vertex_indices = <<1, 0, 1>>

\* C2: whenever triangulate returns, its face_vertex_indices are, face by
\* face in input order, the triangles (v[0], v[i], v[i+1]) for i = 1..n-2
\* of every face with n >= 3 vertices; a face with n = 3 is copied as it
\* is; counts [4] over indices [0,1,2,3] give counts [3,3] over
\* [0,1,2,0,2,3].
C2_FanOrder ==
    (Done1 /\ out.tag = "Ok") =>
       /\ out.mesh.face_vertex_indices
             = ExpectedIndices(mesh, Len(mesh.face_vertex_counts))
       /\ \A k \in 1..Len(mesh.face_vertex_counts) :
             (mesh.face_vertex_counts[k] = 3 /\ HasVerts(mesh, k)) =>
                OutSegment(mesh, out.mesh, k) = FaceVerts(mesh, k)
       /\ mesh = QuadMesh =>
             /\ out.mesh.face_vertex_counts = <<3, 3>>
             /\ out.mesh.face_vertex_indices = <<0, 1, 2, 0, 2, 3>>

C2_Witness ==
    /\ pcM = "once"
    /\ mesh = QuadMesh
    /\ out.tag = "Ok"
    /\ out.mesh.face_vertex_indices = <<0, 1, 2, 0, 2, 3>>

\* C3 (as amended): whenever triangulate returns, the number of output
\* faces times 3 is the number of output indices:
\* len(face_vertex_counts) * 3 = len(face_vertex_indices).
C3_FacesTimesThree ==
    /\ (Done1 /\ out.tag = "Ok") =>
          Len(out.mesh.face_vertex_counts) * 3
             = Len(out.mesh.face_vertex_indices)
    /\ (pcM = "twice" /\ out2.tag = "Ok") =>
          Len(out2.mesh.face_vertex_counts) * 3
             = Len(out2.mesh.face_vertex_indices)

\* C3 (as stated): sum(output face_vertex_counts) * 3
\* = len(output face_vertex_indices).
C3_Original ==
    (Done1 /\ out.tag = "Ok") =>
       Sum(out.mesh.face_vertex_counts) * 3
          = Len(out.mesh.face_vertex_indices)

C3_Witness ==
    /\ pcM = "once"
    /\ out.tag = "Ok"
    /\ Len(out.mesh.face_vertex_counts) = 2
    /\ Len(out.mesh.face_vertex_indices) = 6

MeshInvariantOfFaces(m) ==
    /\ \A j \in 1..Len(m.face_vertex_counts) : m.face_vertex_counts[j] = 3
    /\ Sum(m.face_vertex_counts) = Len(m.face_vertex_indices)

\* C4: whenever triangulate returns, every output count is 3 and the output
\* counts sum to the number of output indices, also for an input without
\* faces, without indices, or with only faces of fewer than 3 vertices.
C4_OutputInvariant ==
    /\ (Done1 /\ out.tag = "Ok") =>
          (MeshInvariantOfFaces(out.mesh) /\ WellFormed(out.mesh))
    /\ (pcM = "twice" /\ out2.tag = "Ok") =>
          (MeshInvariantOfFaces(out2.mesh) /\ WellFormed(out2.mesh))

C4_Witness ==
    /\ pcM = "once"
    /\ mesh.face_vertex_counts = <<2, 1>>
    /\ Len(mesh.face_vertex_indices) = 3
    /\ out.tag = "Ok"
    /\ out.mesh.face_vertex_counts = <<>>
    /\ out.mesh.face_vertex_indices = <<>>

\* C5: triangulate is idempotent: a well-formed mesh whose faces all have
\* exactly 3 vertices is returned equal to itself in every field, and
\* triangulating a result again returns that result.
C5_Idempotent ==
    /\ (Done1 /\ WellFormed(mesh)
              /\ \A k \in 1..Len(mesh.face_vertex_counts) :
                    mesh.face_vertex_counts[k] = 3)
       => (out.tag = "Ok" /\ out.mesh = mesh)
    /\ pcM = "twice" => out2 = out

\* C6: triangulate returns a mesh in which only face_vertex_counts and
\* face_vertex_indices differ from the input: name, points, both
\* transforms, normals and uvs are those of the input.
C6_Frame ==
    (Done1 /\ out.tag = "Ok") =>
       /\ out.mesh.name = mesh.name
       /\ out.mesh.points = mesh.points
       /\ out.mesh.local_transform = mesh.local_transform
       /\ out.mesh.world_transform = mesh.world_transform
       /\ out.mesh.normals = mesh.normals
       /\ out.mesh.uvs = mesh.uvs


(***************************************************************************)
(* Properties of Stage::traverse.                                          *)
(***************************************************************************)
NodesOf(s) == {PrimPtr(s, n) : n \in 1..Len(tree[s])}

\* C7: when two threads call traverse concurrently on the same Stage, each
\* call returns exactly the node sequence of that stage: nothing missing,
\* nothing twice, nothing added, under every interleaving.
C7_ConcurrentTraversals ==
    \A t \in Threads :
       (tpc[t] = "done"
          /\ \A u \in Threads : calls[u] > 0 => target[u] = target[t])
       => prims[t] = NodeSequence(target[t])

\* C8: in one thread, traverse yields the root and every descendant exactly
\* once each, in the order the engine's walk reports them, and a second
\* traverse of the same stage yields the same nodes in the same order.
C8_SequentialTraversal ==
    LET s == target[1] IN
    tpc[1] = "done" =>
       /\ prims[1] = NodeSequence(s)
       /\ Len(prims[1]) = Len(tree[s])
       /\ {prims[1][k] : k \in 1..Len(prims[1])} = NodesOf(s)
       /\ tree[s] # <<>> => prims[1][1] = PrimPtr(s, 1)
       /\ \A k \in 2..Len(prims[1]) :
             \E j \in 1..(k - 1) :
                prims[1][j] = PrimPtr(s, tree[s][prims[1][k][2]])
       /\ (calls[1] >= 2 /\ prev[1].stage = s) => prims[1] = prev[1].prims

C8_Witness ==
    /\ tpc[1] = "done"
    /\ calls[1] = 2
    /\ target[1] = 1
    /\ tree[1] = <<0, 3, 1>>
    /\ prev[1] = [stage |-> 1,
                  prims |-> <<PrimPtr(1, 1), PrimPtr(1, 3), PrimPtr(1, 2)>>]
    /\ prims[1] = prev[1].prims

(***************************************************************************)
(* Properties of the in-memory loads.                                      *)
(***************************************************************************)
\* no other load is using the path of load l
AloneOnPath(l) ==
    \A m \in Loads \ {l} :
       TempPath(ext[m]) = TempPath(ext[l])
          => lpc[m] \in {"create", "returned"}

\* C9: after from_usda, from_usdc or from_usdz has returned, with a Stage or
\* with an error, the temporary file it staged the bytes in no longer
\* exists.
C9_TempFileRemoved ==
    \A l \in Loads :
       (lpc[l] = "returned" /\ AloneOnPath(l))
       => ~fs[TempPath(ext[l])].exists

\* C10: two in-memory loads of the same sub-format running concurrently
\* stage their bytes under different names, so the engine reads, for each
\* load, exactly the bytes that load was given.
C10_ParsesOwnBytes ==
    \A l \in Loads : parsed[l].read => parsed[l].bytes = data[l]

(***************************************************************************)
(* Properties of the lifetime of a Stage.                                  *)
(***************************************************************************)
Released(t) == life[t] = "dropped" \/ (life[t] = "failed" /\ inner[t] # Null)

\* C11: every engine stage allocated by Stage::new is released exactly once
\* (c_tinyusd_stage_free is called once when the owning Stage is dropped,
\* also for the stage of a Stage::open whose load fails), it is never freed
\* twice, and it is never used after it is freed.
C11_ReleasedExactlyOnce ==
    /\ \A s \in Stages : free_calls[s] <= 1
    /\ \A s \in Stages : heap[s] = "live" => free_calls[s] = 0
    /\ \A t \in Threads :
          Released(t) => free_calls[inner[t]] = 1 /\ heap[inner[t]] = "freed"
    /\ stale = {}

(***************************************************************************)
(* Properties of build_gltf and write_glb.                                 *)
(***************************************************************************)
\* the little-endian u32 at byte offset `at` of a file
LeU32(bytes, at) ==
    bytes[at + 1] + 256 * bytes[at + 2] + 65536 * bytes[at + 3]
    + 16777216 * bytes[at + 4]

Slice(bytes, at, len) == SubSeq(bytes, at + 1, at + len)

\* the least multiple of 4 that is at least n
PaddedLen(n) == ((n + 3) \div 4) * 4

JsonLength(file) == LeU32(file, 12)
BinHeaderAt(file) == 20 + JsonLength(file)
BinLength(file) == LeU32(file, BinHeaderAt(file))
BinPayload(file) == Slice(file, BinHeaderAt(file) + 8, BinLength(file))

WroteFile == gpc = "done" /\ written.tag = "Ok"
Rebuilt == (gpc = "rebuild" /\ loop_idx = Len(meshes)) \/ gpc = "done"
WrittenMeshes == Len(gltf[1].meshes)

\* C12: for every list of meshes, the buffer that write_glb rebuilds and
\* writes into the BIN chunk has the same length and the same bytes as the
\* buffer build_gltf used for the byte offsets and lengths of the buffer
\* views and for the buffer's byteLength in the JSON.
C12_SameBuffer ==
    /\ Rebuilt =>
          /\ buffer_data = build.buffer_data
          /\ gltf[1].buffers[1].byte_length = Len(buffer_data)
    /\ WroteFile =>
          /\ BinLength(glb.bytes) = Len(build.buffer_data)
          /\ BinPayload(glb.bytes) = build.buffer_data

C12_Witness ==
    /\ WroteFile
    /\ WrittenMeshes = 1
    /\ Len(meshes) = 2
    /\ Len(build.buffer_data) > 0

\* C13: in the file written by write_glb the header's total length is
\* 12 + 8 + padded JSON length + 8 + padded binary length and is the number
\* of bytes written; the length field of the JSON chunk and of the binary
\* chunk is the number of payload bytes (content and padding) after the
\* chunk's 8-byte header, and both are multiples of 4.
C13_Lengths ==
    WroteFile =>
       LET file == glb.bytes
           json_len == JsonLength(file)
           bin_len == BinLength(file)
       IN  /\ LeU32(file, 8) = Len(file)
           /\ LeU32(file, 8) =
                 12 + 8 + PaddedLen(Len(serialized)) + 8
                 + PaddedLen(Len(buffer_data))
           /\ json_len = PaddedLen(Len(serialized))
           /\ bin_len = PaddedLen(Len(buffer_data))
           /\ json_len % 4 = 0 /\ bin_len % 4 = 0
           /\ Slice(file, 16, 4) = <<74, 83, 79, 78>>
           /\ Slice(file, 20, Len(serialized)) = serialized
           /\ Slice(file, BinHeaderAt(file) + 4, 4) = <<66, 73, 78, 0>>
           /\ Slice(file, BinHeaderAt(file) + 8, Len(buffer_data))
                 = buffer_data
           /\ BinHeaderAt(file) + 8 + bin_len = Len(file)

C13_Witness ==
    /\ WroteFile
    /\ Len(serialized) % 4 = 3
    /\ Len(buffer_data) > 0

\* a mesh whose triangulated form has points and indices
HasGeometry(m) ==
    LET t == triangulate(m, overflow_checks) IN
    /\ t.tag = "Ok"
    /\ Len(t.mesh.points) > 0
    /\ Len(t.mesh.face_vertex_indices) > 0

ZeroGeometry(m) ==
    LET t == triangulate(m, overflow_checks) IN
    /\ t.tag = "Ok"
    /\ (Len(t.mesh.points) = 0 \/ Len(t.mesh.face_vertex_indices) = 0)

Kept(list) == SelectSeq(list, HasGeometry)
Processed == SubSeq(meshes, 1, loop_idx)

\* build_gltf's loop and write_glb's loop over the first n meshes of a list
RECURSIVE BuildOver(_, _)
BuildOver(list, n) ==
    IF n = 0 THEN BuildStart
    ELSE BuildMesh(BuildOver(list, n - 1), list[n].name,
                   triangulate(list[n], overflow_checks).mesh)

RECURSIVE RebuildOver(_, _)
RebuildOver(list, n) ==
    IF n = 0 THEN <<>>
    ELSE RebuildMesh(RebuildOver(list, n - 1),
                     triangulate(list[n], overflow_checks).mesh)

\* C14: a mesh whose triangulated form has no points or no indices is
\* skipped: it adds no bytes, buffer views, accessors, mesh descriptor or
\* node, and the byte offsets, byte lengths and accessor, mesh and node
\* indices of all other meshes are what they are for the list without the
\* skipped meshes.
C14_SkippedLeavesNoTrace ==
    /\ gpc = "build" =>
          build = BuildOver(Kept(Processed), Len(Kept(Processed)))
    /\ gltf # None =>
          gltf[1] = BuildFinish(BuildOver(Kept(meshes), Len(Kept(meshes))))
    /\ gpc \in {"rebuild", "done"} =>
          buffer_data = RebuildOver(Kept(Processed), Len(Kept(Processed)))

C14_Witness ==
    /\ WroteFile
    /\ Len(meshes) = 2
    /\ ZeroGeometry(meshes[1])
    /\ Len(meshes[1].points) > 0
    /\ Len(meshes[1].face_vertex_indices) > 0
    /\ HasGeometry(meshes[2])

TriangulatedOf(m) == triangulate(m, overflow_checks).mesh

ViewStart(v) == v.byte_offset[1]
ViewEnd(v) == v.byte_offset[1] + v.byte_length

\* the two buffer views of the k-th written mesh (k from 0) of root r
ViewsOfWritten(r, kept, k) ==
    LET before == Len(BuildOver(kept, k).buffer_data)
        t == TriangulatedOf(kept[k + 1])
        position == r.buffer_views[2 * k + 1]
        index == r.buffer_views[2 * k + 2]
    IN  /\ position.buffer = 0
        /\ position.byte_offset = Some(before)
        /\ position.byte_length = 12 * Len(t.points)
        /\ position.byte_stride = Some(12)
        /\ position.target = Some("ArrayBuffer")
        /\ index.buffer = 0
        /\ index.byte_offset = Some(PaddedLen(before + 12 * Len(t.points)))
        /\ index.byte_length = 4 * Len(t.face_vertex_indices)
        /\ index.byte_stride = None
        /\ index.target = Some("ElementArrayBuffer")

\* C15: for each written mesh build_gltf records a position buffer view
\* (offset = buffer length before the points, length = 12 * points, stride
\* 12, vertex-attribute target) and an index buffer view (offset = buffer
\* length after padding, length = 4 * indices, no stride, index target);
\* every offset is a multiple of 4, offset + length is at most the buffer's
\* byteLength, and no two views overlap.
C15_BufferViews ==
    gltf # None =>
       LET r == gltf[1]
           kept == Kept(meshes)
           views == r.buffer_views
       IN  /\ Len(views) = 2 * Len(kept)
           /\ \A k \in 0..(Len(kept) - 1) : ViewsOfWritten(r, kept, k)
           /\ \A j \in 1..Len(views) :
                 /\ ViewStart(views[j]) % 4 = 0
                 /\ ViewEnd(views[j]) <= r.buffers[1].byte_length
           /\ \A i, j \in 1..Len(views) :
                 i < j => ViewEnd(views[i]) <= ViewStart(views[j])

C15_Witness ==
    /\ gltf # None
    /\ Len(gltf[1].buffer_views) = 4
    /\ ViewStart(gltf[1].buffer_views[3]) > 0
    /\ ViewStart(gltf[1].buffer_views[4]) > ViewStart(gltf[1].buffer_views[3])

\* the accessors, mesh descriptor and node of the k-th written mesh (k from
\* 0) of root r
DescribesWritten(r, kept, k) ==
    LET t == TriangulatedOf(kept[k + 1])
        position == r.accessors[2 * k + 1]
        index == r.accessors[2 * k + 2]
    IN  /\ position.buffer_view = Some(2 * k)
        /\ position.count = Len(t.points)
        /\ position.component_type = "F32" /\ position.type_ = "Vec3"
        /\ index.buffer_view = Some(2 * k + 1)
        /\ index.count = Len(t.face_vertex_indices)
        /\ index.component_type = "U32" /\ index.type_ = "Scalar"
        /\ index.min = None /\ index.max = None
        /\ Len(r.meshes[k + 1].primitives) = 1
        /\ r.meshes[k + 1].primitives[1].attributes
              = [POSITION |-> 2 * k]
        /\ r.meshes[k + 1].primitives[1].indices = Some(2 * k + 1)
        /\ r.meshes[k + 1].primitives[1].material = None
        /\ r.meshes[k + 1].primitives[1].mode = "Triangles"
        /\ r.nodes[k + 1].mesh = Some(k)
        /\ r.nodes[k + 1].name = Some(kept[k + 1].name)

\* C16: for the k-th written mesh (from 0) build_gltf creates position
\* accessor 2k over buffer view 2k (count = points) and index accessor 2k+1
\* over buffer view 2k+1 (count = indices), mesh descriptor k with one
\* triangle-list primitive that references those two accessors and no
\* material, and node k that references mesh k and has the source mesh's
\* name; the single buffer has byteLength = final buffer size, the one scene
\* lists the node indices 0..n-1 once each and is the default scene.
C16_Descriptors ==
    gltf # None =>
       LET r == gltf[1]
           kept == Kept(meshes)
           n == Len(kept)
       IN  /\ Len(r.accessors) = 2 * n
           /\ Len(r.meshes) = n
           /\ Len(r.nodes) = n
           /\ \A k \in 0..(n - 1) : DescribesWritten(r, kept, k)
           /\ Len(r.buffers) = 1
           /\ r.buffers[1].byte_length = Len(build.buffer_data)
           /\ Len(r.scenes) = 1
           /\ r.scenes[1].nodes = [j \in 1..n |-> j - 1]
           /\ r.scene = Some(0)

C16_Witness ==
    /\ gltf # None
    /\ Len(gltf[1].nodes) = 2
    /\ gltf[1].nodes[1].name # gltf[1].nodes[2].name
    /\ gltf[1].accessors[3].count # gltf[1].accessors[1].count

\* a <= b on f32
F32Leq(a, b) == ~IsNaN(a) /\ ~IsNaN(b) /\ ~F32Less(b, a)

NoNaN(points) ==
    \A j \in 1..Len(points) : \A i \in 1..3 : ~IsNaN(points[j][i])

\* lo and hi are the component-wise minimum and maximum of the points
IsBoundingBox(lo, hi, points) ==
    \A i \in 1..3 :
       /\ \A j \in 1..Len(points) :
             F32Leq(lo[i], points[j][i]) /\ F32Leq(points[j][i], hi[i])
       /\ \E j \in 1..Len(points) : lo[i] = points[j][i]
       /\ \E j \in 1..Len(points) : hi[i] = points[j][i]

ExamplePoints == <<Point(-1, 2, 0), Point(3, -5, 1)>>

BoundingBoxes(needs_no_nan) ==
    gltf # None =>
       LET r == gltf[1]
           kept == Kept(meshes)
       IN  \A k \in 0..(Len(kept) - 1) :
              LET points == TriangulatedOf(kept[k + 1]).points
                  lo == r.accessors[2 * k + 1].min[1]
                  hi == r.accessors[2 * k + 1].max[1]
              IN  /\ (needs_no_nan => NoNaN(points))
                     => IsBoundingBox(lo, hi, points)
                  /\ points = ExamplePoints =>
                        lo = Point(-1, -5, 0) /\ hi = Point(3, 2, 1)

DirectChildren(ptr) ==
    {PrimPtr(ptr[1], n) : n \in ChildrenOf(tree[ptr[1]], ptr[2])}

\* the j-th direct child (j from 0) of a node, in the engine's order
NthChild(ptr, j) ==
    CHOOSE c \in DirectChildren(ptr) :
       Cardinality({d \in DirectChildren(ptr) : d[2] < c[2]}) = j

ChildCount(ptr) == Cardinality(DirectChildren(ptr))

Min(a, b) == IF a <= b THEN a ELSE b

\* C18: child(i) is None for every i >= num_children(), and children()
\* yields child(0), ..., child(num_children()-1) in that order (the direct
\* children only, as many items as the exact size hint says) and then None.
C18_ChildAccess ==
    /\ asked # None =>
          LET a == asked[1] IN
          a.result = IF a.index >= ChildCount(a.prim) THEN None
                     ELSE Some(NthChild(a.prim, a.index))
    /\ iter # None =>
          LET it == iter[1]
              n == ChildCount(it.prim)
              left == n - Min(Len(yielded), n)
          IN  /\ \A j \in 1..Len(yielded) :
                    yielded[j] = IF j <= n
                                 THEN Some(NthChild(it.prim, j - 1))
                                 ELSE None
              /\ \A j \in 1..Min(Len(yielded), n) :
                    yielded[j] = child(it.prim, j - 1)
              /\ size_hint(it) = <<left, Some(left)>>

C18_Witness ==
    /\ iter # None
    /\ iter[1].count = 2
    /\ Len(yielded) = 4
    /\ yielded[1] # None /\ yielded[2] # None /\ yielded[1] # yielded[2]
    /\ yielded[3] = None /\ yielded[4] = None

(***************************************************************************)
(* Properties of classification and of the MeshExtractor.                  *)
(***************************************************************************)
\* the label is some text followed by "Light"
HasSuffixLight(label) ==
    \E k \in 0..Len(label) :
       label = SubSeq(label, 1, k) \o <<"L", "i", "g", "h", "t">>

Flags(c) ==
    <<c.is_mesh, c.is_xform, c.is_material, c.is_shader, c.is_camera,
      c.is_light>>

\* C19: classification depends only on the type label: is_light() is true
\* exactly when the label ends with "Light" ("PointLight" and "SphereLight"
\* are lights), and with an empty label every predicate (is_mesh, is_xform,
\* is_material, is_shader, is_camera, is_light) is false.
C19_Classification ==
    classified # None =>
       LET c == classified[1]
           label == type_label[c.prim[2]]
       IN  /\ c.is_light = HasSuffixLight(label)
           /\ label \in {Str_PointLight, Str_SphereLight} => c.is_light
           /\ label = <<>> =>
                 Flags(c) = <<FALSE, FALSE, FALSE, FALSE, FALSE, FALSE>>
           /\ \A n \in 1..Len(tree[1]) :
                 type_label[n] = label =>
                    LET other == PrimPtr(1, n) IN
                    Flags(c) = <<is_mesh(other), is_xform(other),
                                 is_material(other), is_shader(other),
                                 is_camera(other), is_light(other)>>

C19_Witness ==
    /\ classified # None
    /\ classified[1].is_light
    /\ type_label[classified[1].prim[2]] = Str_SphereLight
    /\ \E n \in 1..Len(tree[1]) : type_label[n] = Str_LightFilter
    /\ \E n \in 1..Len(tree[1]) : type_label[n] = <<>>

\* the nodes of a traversal whose label is "Mesh", in the traversal's order
MeshNodes(traversal) ==
    SelectSeq(traversal, LAMBDA ptr : type_label[ptr[2]] = Str_Mesh)

\* C20: MeshExtractor::meshes/collect returns exactly one Mesh per node of
\* traverse() whose type label is "Mesh", in traversal order and with the
\* node's local name, and nothing for a node of another type; extraction
\* does not modify the scene.
C20_ExtractsMeshNodes ==
    /\ [](extracted # None =>
            LET expected == MeshNodes(prims[1])
                got == extracted[1]
            IN  /\ Len(got) = Len(expected)
                /\ \A j \in 1..Len(got) :
                      got[j].name = local_name[expected[j][2]]
                /\ prims[1] = NodeSequence(1))
    /\ [][UNCHANGED <<tree, type_label, local_name>>]_vars

C20_Witness ==
    /\ extracted # None
    /\ Len(extracted[1]) = 2
    /\ Len(prims[1]) = 3
    /\ extracted[1][1].name # extracted[1][2].name
    /\ type_label[prims[1][2][2]] # Str_Mesh

(***************************************************************************)
(* C21.  extract_mesh reads no geometry from the engine (mesh.rs:144-160:  *)
(* only the name and the property names), so every Mesh of the extractor   *)
(* is one whose geometry could not be read.  The zero-vertex mesh of the   *)
(* same name is the value Mesh::new makes (mesh.rs:41-52).                 *)
(***************************************************************************)
\* C21: a Mesh that the extractor returns for a node whose geometry could
\* not be read is never the same observable value as the zero-vertex Mesh
\* of that name, so that a caller can tell the two apart.
C21_Distinguishable ==
    extracted # None =>
       \A j \in 1..Len(extracted[1]) :
          extracted[1][j] # MeshNew(extracted[1][j].name)

(***************************************************************************)
(* C22.  Both loops call mesh.triangulate() before anything else           *)
(* (usd_to_glb.rs:73 and 274); its indexing of face_vertex_indices panics  *)
(* past the end of the list (mesh.rs:97-101), and neither loop catches it. *)
(***************************************************************************)
\* face data whose counts ask for more indices than there are, or that
\* has a negative count
Malformed(m) ==
    \/ Sum(m.face_vertex_counts) > Len(m.face_vertex_indices)
    \/ \E k \in 1..Len(m.face_vertex_counts) : m.face_vertex_counts[k] < 0

\* C22: malformed face data in one mesh of the list is a failure of that
\* mesh only: the export never panics on it, and goes on to process and
\* write the remaining meshes.
C22_PerMeshFailure ==
    (\E k \in 1..Len(meshes) : Malformed(meshes[k])) => gpc # "panicked"

(***************************************************************************)
(* Properties of Stage::open.                                              *)
(***************************************************************************)
\* the threads whose Stage::open call has returned
Opened == {t \in Threads : opened[t].ret.tag # "None"}

\* C23: Stage::open returns either a fully loaded Stage or an error and no
\* Stage: when the engine's load reports failure, the result is
\* Err(LoadError(text)) with text the engine's diagnostic string unchanged,
\* and the stage that was created for the load is not observable (it is
\* not returned, and it has been freed).
C23_OpenAtomic ==
    \A t \in Opened :
       LET o == opened[t] IN
       /\ o.ret.tag = "Ok" =>
             /\ o.load # None /\ o.load[1].result = 1
             /\ o.ret.stage = inner[t]
             /\ life[t] = "owned" => heap[inner[t]] = "live"
       /\ o.ret.tag = "Err" =>
             /\ life[t] = "failed"
             /\ inner[t] # Null => heap[inner[t]] = "freed"
       /\ (o.load # None /\ o.load[1].result = 0) =>
             /\ o.ret.tag = "Err"
             /\ o.ret.kind = "LoadError"
             /\ o.load[1].err # None => o.ret.text = o.load[1].err[1]

\* C24: Stage::open fails with the InvalidPath error kind whenever the path
\* text is not valid UTF-8 or holds an interior NUL byte, and it does so
\* before an engine stage is allocated or a load is attempted.
C24_InvalidPath ==
    \A t \in Opened :
       LET o == opened[t] IN
       (~IsUtf8(o.path) \/ HasNul(o.path)) =>
          /\ o.ret.tag = "Err"
          /\ o.ret.kind = "InvalidPath"
          /\ o.load = None
          /\ inner[t] = Null

(***************************************************************************)
(* Properties of the padding of write_glb.                                 *)
(***************************************************************************)
\* the least p in 0..3 with (n + p) % 4 = 0
LeastPad(n) ==
    CHOOSE p \in 0..3 :
       /\ (n + p) % 4 = 0
       /\ \A q \in 0..(p - 1) : (n + q) % 4 # 0

\* C25: write_glb pads each chunk minimally to the next 4-byte boundary:
\* the number of padding bytes is the least p in 0..3 with
\* (length + p) % 4 = 0 (0 for an aligned content), the JSON padding bytes
\* are all 0x20 and the binary padding bytes are all 0x00, and the file is
\* the header, then the JSON chunk, then the binary chunk.
C25_MinimalPadding ==
    /\ \A n \in 0..(2 * MaxJson) : Padding(n) = LeastPad(n)
    /\ WroteFile =>
          LET file == glb.bytes
              json_at == 20
              json_pad == JsonLength(file) - Len(serialized)
              bin_at == BinHeaderAt(file) + 8
              bin_pad == BinLength(file) - Len(buffer_data)
          IN  /\ Slice(file, 0, 4) = <<103, 108, 84, 70>>
              /\ Slice(file, 4, 4) = <<2, 0, 0, 0>>
              /\ Slice(file, 16, 4) = <<74, 83, 79, 78>>
              /\ Slice(file, json_at, Len(serialized)) = serialized
              /\ json_pad = LeastPad(Len(serialized))
              /\ \A j \in 1..json_pad :
                    file[json_at + Len(serialized) + j] = 32
              /\ BinHeaderAt(file) = json_at + Len(serialized) + json_pad
              /\ Slice(file, BinHeaderAt(file) + 4, 4) = <<66, 73, 78, 0>>
              /\ Slice(file, bin_at, Len(buffer_data)) = buffer_data
              /\ bin_pad = LeastPad(Len(buffer_data))
              /\ \A j \in 1..bin_pad :
                    file[bin_at + Len(buffer_data) + j] = 0
              /\ Len(file) = bin_at + Len(buffer_data) + bin_pad

C25_Witness ==
    /\ WroteFile
    /\ Len(serialized) % 4 = 1
    /\ JsonLength(glb.bytes) = Len(serialized) + 3
    /\ Len(buffer_data) > 0

(***************************************************************************)
(* Properties of the nodes a StageTraversal holds.                         *)
(***************************************************************************)
\* the Prims that thread t's StageTraversal holds once traverse() returned
HeldPrims(t) ==
    IF tpc[t] = "done" THEN {prims[t][k] : k \in 1..Len(prims[t])} ELSE {}

\* C26: every Prim that traverse() on a stage S yields is a node of S, also
\* while another thread traverses a different stage T: no Prim with the
\* lifetime of S points to a node of T, and so the drop of T leaves no Prim
\* obtained from S pointing into freed memory.
C26_PrimsOfOwnStage ==
    \A t \in Threads :
       \A ptr \in HeldPrims(t) :
          /\ ptr[1] = target[t]
          /\ life[t] = "owned" => heap[ptr[1]] = "live"

(***************************************************************************)
(* Properties of Iterator::next for StageTraversal.                        *)
(***************************************************************************)
\* what calls number 1..n of next() return on a traversal that collected
\* the nodes `collected`
SnapshotYield(collected, n) ==
    [k \in 1..n |-> IF k <= Len(collected) THEN Some(collected[k]) ELSE None]

\* C27: a StageTraversal is a finite snapshot taken when traverse() is
\* called: next() returns the collected nodes in collection order, each
\* once, for as many calls as nodes were collected, and None on every later
\* call; another traversal that starts (and clears and refills the shared
\* buffer) does not change what a StageTraversal that exists holds or has
\* yielded.
C27_Snapshot ==
    /\ [](\A t \in Threads :
            tpc[t] = "done" =>
               /\ nexts[t] = SnapshotYield(prims[t], Len(nexts[t]))
               /\ trav_index[t] = Min(Len(nexts[t]), Len(prims[t])))
    /\ [][\A t \in Threads :
            tpc[t] = "done" =>
               /\ prims'[t] = prims[t]
               /\ SubSeq(nexts'[t], 1, Len(nexts[t])) = nexts[t]]_vars

C27_Witness ==
    /\ tpc[1] = "done"
    /\ Len(prims[1]) = 3
    /\ Len(nexts[1]) = 5
    /\ tpc[2] = "walk"
    /\ TRAVERSAL_PRIMS = <<>>

(***************************************************************************)
(* Properties of the alignment of the shared buffer.                       *)
(***************************************************************************)
\* the bytes of the written meshes of a list with no padding byte at all
Unpadded(kept) ==
    Flatten([k \in 1..Len(kept) |->
               PointBytes(TriangulatedOf(kept[k]).points)
               \o IndicesBytes(TriangulatedOf(kept[k]).face_vertex_indices)])

\* 12 bytes for each point and 4 bytes for each index of the written meshes
PayloadSize(kept) ==
    Sum([k \in 1..Len(kept) |->
           12 * Len(TriangulatedOf(kept[k]).points)
           + 4 * Len(TriangulatedOf(kept[k]).face_vertex_indices)])

\* C28: in build_gltf and in write_glb the buffer's length is a multiple of
\* 4 after every append step, so the padding loops never add a byte: each
\* index view starts where its position view ends, each next position view
\* starts where the previous index view ends, the final buffer length is
\* the sum over the written meshes of 12 * points + 4 * indices, and the
\* binary chunk's padding is 0.
C28_AlwaysAligned ==
    /\ gpc \in {"build", "rebuild", "done"} =>
          LET kept == IF gpc = "build" THEN Kept(Processed) ELSE Kept(meshes)
              views == build.root.buffer_views
          IN  /\ build.buffer_data = Unpadded(kept)
              /\ Len(build.buffer_data) = PayloadSize(kept)
              /\ Len(build.buffer_data) % 4 = 0
              /\ Len(views) = 2 * Len(kept)
              /\ \A j \in 1..Len(views) :
                    /\ ViewStart(views[j]) % 4 = 0
                    /\ ViewEnd(views[j]) % 4 = 0
                    /\ ViewStart(views[j]) =
                          (IF j = 1 THEN 0 ELSE ViewEnd(views[j - 1]))
              /\ views # <<>> =>
                    ViewEnd(views[Len(views)]) = Len(build.buffer_data)
    /\ gpc \in {"rebuild", "done"} =>
          /\ buffer_data = Unpadded(Kept(Processed))
          /\ Len(buffer_data) = PayloadSize(Kept(Processed))
          /\ Len(buffer_data) % 4 = 0
    /\ gpc = "done" => Padding(Len(buffer_data)) = 0
    /\ WroteFile =>
          /\ BinLength(glb.bytes) = Len(buffer_data)
          /\ Len(glb.bytes) = BinHeaderAt(glb.bytes) + 8 + Len(buffer_data)

C28_Witness ==
    /\ WroteFile
    /\ Len(Kept(meshes)) = 2
    /\ Len(TriangulatedOf(meshes[1]).points) = 2
    /\ Len(buffer_data) = 72

(***************************************************************************)
(* Properties of the skip test.                                            *)
(***************************************************************************)
\* a source mesh with at least one point and a face of 3 or more vertices;
\* every other mesh has no point, no face, or only faces of fewer than 3
MustBeWritten(m) ==
    /\ m.points # <<>>
    /\ \E k \in 1..Len(m.face_vertex_counts) : m.face_vertex_counts[k] >= 3

\* the export has ended: write_glb returned, or a panic ended the process
ExportEnded == gpc \in {"done", "panicked"}

\* C29: the skip test looks at the triangulated mesh: a mesh with points
\* and faces whose faces all have fewer than 3 vertices is skipped
\* entirely, and a mesh with at least one point and at least one face of 3
\* or more vertices is always written, so that the primitives, meshes and
\* nodes of the output are those meshes of the list, in order.
C29_SkipOnTriangulated ==
    /\ gpc = "build" =>
          LET expected == SelectSeq(Processed, MustBeWritten) IN
          /\ Len(build.mesh_primitives) = Len(expected)
          /\ \A k \in 1..Len(expected) :
                build.mesh_primitives[k][1] = expected[k].name
    /\ ExportEnded =>
          LET expected == SelectSeq(meshes, MustBeWritten) IN
          /\ expected # <<>> => gltf # None
          /\ gltf # None =>
                /\ Len(gltf[1].meshes) = Len(expected)
                /\ Len(gltf[1].nodes) = Len(expected)
                /\ \A k \in 1..Len(expected) :
                      gltf[1].meshes[k].name = Some(expected[k].name)

(***************************************************************************)
(* Properties of Prim::path.                                               *)
(***************************************************************************)
\* the parent of node n of stage 1 (0 for the root)
ParentOf(n) == tree[1][n]

\* the path of the classified node is "/" and its local name, the same for
\* every node of that local name whatever its depth and parent; it may
\* hold the parent's name only where `allowed`
PathIs(allowed) ==
    classified # None =>
       LET c == classified[1]
           n == c.prim[2]
       IN  /\ c.path = <<"/">> \o NameChars(local_name[n])
           /\ \A m \in 1..Len(tree[1]) :
                 local_name[m] = local_name[n] =>
                    prim_path(PrimPtr(1, m)) = c.path
           /\ (ParentOf(n) # 0
               /\ ~(allowed /\ Contains(NameChars(local_name[n]),
                                         NameChars(local_name[ParentOf(n)]))))
              => ~Contains(c.path, NameChars(local_name[ParentOf(n)]))

====
